---- MODULE Spec2Model ----
(***************************************************************************)
(* Model of the Instagram retrieval engine (InstagramService) and of the   *)
(* two controllers that own an instance of it.                             *)
(*                                                                         *)
(* A "call" is one HTTP request that runs InstagramService.getLatestPost() *)
(* to completion.  Calls interleave at every await of the source; between  *)
(* two awaits a call runs atomically (Node's single-threaded event loop).  *)
(* Consecutive awaits that touch no state shared between calls are folded  *)
(* into one action whose outcomes are the outcomes of the folded code.     *)
(***************************************************************************)
EXTENDS Integers, Sequences, FiniteSets, TLC

\* ------------------------------------------------------------------------
\* Bounds of the model
\* ------------------------------------------------------------------------

\* number of HTTP requests that may be in flight at the same time
MaxCalls == 1

\* number of candidate script blocks of a fetched document
MaxBlocks == 4

Calls == 1..MaxCalls

\* ------------------------------------------------------------------------
\* Program constants and texts
\* ------------------------------------------------------------------------

\* const maxRetries = 3
maxRetries == 3

\* username: config?.username || process.env.TARGET_USERNAME || 'bbcnews'
DefaultUsername == "bbcnews"

\* the values process.env.TARGET_USERNAME has when the process starts
\* (<<>>: not set; the documented setting is 'bbcnews')
EnvUsernames == {<<>>, <<"">>, <<"bbcnews">>}

\* page.goto(profile, { waitUntil: 'networkidle2', timeout: 120000 })
FirstNavigation == [waitUntil |-> "networkidle2", timeout |-> 120000]

RetryNavigation_asFirstAttempt == [waitUntil |-> "networkidle2", timeout |-> 120000]

\* page.goto(profile, { waitUntil: 'domcontentloaded', timeout: 60000 })
RetryNavigation == [waitUntil |-> "domcontentloaded", timeout |-> 60000]

\* identifiers a username-update request may carry ("" is a missing one)
Usernames == {"bbcnews", "newuser"}

\* the two controllers, each constructing its own InstagramService
Services == {"instagramController", "commonController"}

\* the routes that run a retrieval
Routes == {"latest", "workflow"}

\* the service a route's controller calls
ServiceOf(route) ==
  IF route = "latest" THEN "instagramController" ELSE "commonController"

\* message of an error raised by an external operation (browser, HTTP, fs)
ExternalFault == "external fault"

AllMethodsFailedText == "Failed to fetch Instagram data using all available methods"

PuppeteerPrefix == "Puppeteer error: "
CheerioPrefix == "Cheerio error: "
ApiPrefix == "API error: "

\* ------------------------------------------------------------------------
\* InstagramResponse values: data and error are optional (absent = <<>>)
\* ------------------------------------------------------------------------

\* a local that has not been assigned yet
Unset == [success |-> FALSE, data |-> <<>>, error |-> <<>>]

\* return { success: true, data: post }
Success(post) == [success |-> TRUE, data |-> <<post>>, error |-> <<>>]

\* return { success: false, error: `${prefix}${errorMessage}` }
Failure(text) == [success |-> FALSE, data |-> <<>>, error |-> text]

\* the text `hay` contains the text `needle` (texts are sequences of fragments)
Contains(hay, needle) ==
  \E i \in 0..(Len(hay) - Len(needle)) :
    \A j \in 1..Len(needle) : hay[i + j] = needle[j]

\* ------------------------------------------------------------------------
\* State
\* ------------------------------------------------------------------------

VARIABLES
  config,      \* per service: this.config = { username, accessToken }
  call,        \* per call: position, locals of getLatestPost and of the
               \* strategy it is running, and the observations about it
  lastUpdate,  \* <<u>>: u is the username the last accepted update request
               \* passed to setUsername; <<>>: no update request so far
  unit         \* one step sequence of a strategy run on its own, with the
               \* locals of that code (only under SpecUnit)

vars == <<config, call, lastUpdate, unit>>

\* the posts the rendered post page can yield (caption falls back to
\* 'No caption'; a record is only built with a non-empty image source)
PuppeteerPosts ==
  {[caption |-> c, imageUrl |-> "http://img"] : c \in {"hello", "No caption"}}

\* the posts embedded-state extraction can yield (display_url may be missing)
ScriptPosts ==
  {[caption |-> c, imageUrl |-> i] :
     c \in {"hello", "No caption"}, i \in {"http://img", ""}}

\* the post direct markup extraction yields
DirectPosts ==
  {[caption |-> "Caption not available via direct HTML parsing",
    imageUrl |-> "http://img"]}

\* the posts the Graph API can yield (media_url may be missing)
ApiPosts ==
  {[caption |-> c, imageUrl |-> i] :
     c \in {"hello", "No caption"}, i \in {"http://img", ""}}

\* a call slot that runs no request
Idle ==
  [pc |-> "idle", route |-> "latest", session |-> "none", retryCount |-> 0,
   pending |-> Unset, outcome |-> Unset,
   startUser |-> DefaultUsername, lastTarget |-> <<>>, returned |-> <<>>,
   invoked |-> [puppeteer |-> 0, cheerio |-> 0, api |-> 0],
   partial |-> FALSE, navs |-> <<>>]

\* ------------------------------------------------------------------------
\* InstagramService
\* ------------------------------------------------------------------------

setUsername_noop(cfg, username) == cfg

InstagramService_noFallback(configUsername, envUsername, token) ==
  [username |-> IF configUsername # <<>> /\ configUsername[1] # ""
                  THEN configUsername[1]
                  ELSE IF envUsername # <<>> THEN envUsername[1] ELSE "",
   accessToken |-> token]

\* constructor(config?): config?.username || process.env.TARGET_USERNAME ||
\* 'bbcnews' (an absent or empty value is falsy); token: whether
\* config?.accessToken || process.env.INSTAGRAM_ACCESS_TOKEN is truthy
InstagramService(configUsername, envUsername, token) ==
  [username |-> IF configUsername # <<>> /\ configUsername[1] # ""
                  THEN configUsername[1]
                  ELSE IF envUsername # <<>> /\ envUsername[1] # ""
                         THEN envUsername[1]
                         ELSE DefaultUsername,
   accessToken |-> token]

\* this.config.username = username
setUsername(cfg, username) == [cfg EXCEPT !.username = username]

\* the identifier in `https://www.instagram.com/${this.config.username}/`,
\* read from the configuration when the request is issued
profileTarget(cfg) == cfg.username

\* issue a request for the profile page (lastTarget: the identifier of the
\* most recent profile request of the call)
requestProfile(k, cfg) == [k EXCEPT !.lastTarget = <<profileTarget(cfg)>>]

\* await page.goto(profile, options) is issued (navs: the options of the
\* profile navigations of the running fetchViaPuppeteer, in order)
navigateProfile(k, cfg, options) ==
  [requestProfile(k, cfg) EXCEPT !.navs = Append(@, options)]

allMethodsFailed_noReason == [success |-> FALSE, data |-> <<>>, error |-> <<>>]

allMethodsFailed_withReason ==
  Failure(<<AllMethodsFailedText, ApiPrefix, ExternalFault>>)

\* return { success: false, error: 'Failed to fetch ... all available methods' }
allMethodsFailed == Failure(<<AllMethodsFailedText>>)

\* getLatestPost returns res
returnOutcome(k, res) ==
  [k EXCEPT !.pc = "done", !.outcome = res, !.retryCount = 0]

\* a strategy hands res back to getLatestPost, which binds it to
\* puppeteerResult, cheerioResult or apiResult (returned: the strategy that
\* returned last, with its result; getLatestPost reads no earlier result)
strategyReturns(k, name, res) ==
  [k EXCEPT !.returned = <<[by |-> name, result |-> res]>>, !.retryCount = 0,
            !.navs = <<>>]

afterApi_returnsApiFailure(k, res) ==
  returnOutcome(strategyReturns(k, "api", res), res)

\* apiResult = await this.fetchViaApi(): success is returned, failure falls
\* through to the exhaustion failure
afterApi(k, res) ==
  LET k1 == strategyReturns(k, "api", res) IN
  IF res.success THEN returnOutcome(k1, res)
                 ELSE returnOutcome(k1, allMethodsFailed)

\* fetchViaApi up to its request: without a token it returns at once
callFetchViaApi(k, cfg) ==
  LET k1 == [k EXCEPT !.invoked.api = @ + 1] IN
  IF ~cfg.accessToken
    THEN afterApi(k1, Failure(<<"No Instagram access token provided">>))
    ELSE [k1 EXCEPT !.pc = "api", !.partial = FALSE]

afterCheerio_ignoresSuccess(k, cfg, res) ==
  LET k1 == strategyReturns(k, "cheerio", res) IN
  IF cfg.accessToken
    THEN callFetchViaApi(k1, cfg)
    ELSE returnOutcome(k1, IF res.success THEN res ELSE allMethodsFailed)

afterCheerio_rerunsPuppeteer(k, cfg, res) ==
  LET k1 == strategyReturns(k, "cheerio", res) IN
  IF res.success THEN returnOutcome(k1, res)
  ELSE IF k1.invoked.puppeteer < 2
         THEN [k1 EXCEPT !.pc = "launch", !.invoked.puppeteer = @ + 1]
         ELSE IF cfg.accessToken
                THEN callFetchViaApi(k1, cfg)
                ELSE returnOutcome(k1, allMethodsFailed)

afterCheerio_noTokenCheck(k, cfg, res) ==
  LET k1 == strategyReturns(k, "cheerio", res) IN
  IF res.success THEN returnOutcome(k1, res)
  ELSE callFetchViaApi(k1, cfg)

\* cheerioResult = await this.fetchViaCheerio(): success is returned; on
\* failure the API is tried only if (this.config.accessToken)
afterCheerio(k, cfg, res) ==
  LET k1 == strategyReturns(k, "cheerio", res) IN
  IF res.success THEN returnOutcome(k1, res)
  ELSE IF cfg.accessToken
         THEN callFetchViaApi(k1, cfg)
         ELSE returnOutcome(k1, allMethodsFailed)

\* fetchViaCheerio up to its first axios.get
callFetchViaCheerio(k, cfg) ==
  requestProfile([k EXCEPT !.pc = "fetch", !.retryCount = 0, !.partial = FALSE,
                           !.invoked.cheerio = @ + 1], cfg)

afterPuppeteer_ignoresSuccess(k, cfg, res) ==
  callFetchViaCheerio(
    strategyReturns(k, "puppeteer", res), cfg)

\* puppeteerResult = await this.fetchViaPuppeteer(): success is returned,
\* failure starts the Cheerio method
afterPuppeteer(k, cfg, res) ==
  LET k1 == strategyReturns(k, "puppeteer", res) IN
  IF res.success THEN returnOutcome(k1, res)
                 ELSE callFetchViaCheerio(k1, cfg)

finishPuppeteer_noClose(k, cfg, res) == afterPuppeteer(k, cfg, res)

finishPuppeteer_closeOnSuccessOnly(k, cfg, res) ==
  IF k.session = "open" /\ res.success
    THEN [k EXCEPT !.pc = "close", !.pending = res]
    ELSE afterPuppeteer(k, cfg, res)

\* catch / finally of fetchViaPuppeteer: the result is fixed, then
\* if (browser) await browser.close()
finishPuppeteer(k, cfg, res) ==
  IF k.session = "open"
    THEN [k EXCEPT !.pc = "close", !.pending = res]
    ELSE afterPuppeteer(k, cfg, res)

puppeteerFailure(msg) == Failure(<<PuppeteerPrefix, msg>>)

cheerioFailure(msg) == Failure(<<CheerioPrefix>> \o msg)

\* ------------------------------------------------------------------------
\* Actions: one per await of the source at which a call is suspended
\* ------------------------------------------------------------------------

Cfg(c) == config[ServiceOf(call[c].route)]

Step(c, k) == /\ call' = [call EXCEPT ![c] = k]
              /\ UNCHANGED <<config, lastUpdate, unit>>

\* a route handler calls getLatestPost(): log the username, call
\* fetchViaPuppeteer, which calls puppeteer.launch
getLatestPost(c, r) ==
  /\ call[c].pc = "idle"
  /\ Step(c, [Idle EXCEPT !.pc = "launch", !.route = r,
                          !.startUser = config[ServiceOf(r)].username,
                          !.invoked.puppeteer = 1])

\* browser = await puppeteer.launch(...)
Launch(c) ==
  /\ call[c].pc = "launch"
  /\ \/ Step(c, [call[c] EXCEPT !.pc = "setup", !.session = "open"])
     \/ Step(c, finishPuppeteer(call[c], Cfg(c), puppeteerFailure(ExternalFault)))

\* newPage, setUserAgent, setExtraHTTPHeaders, setViewport, then the first
\* page.goto of the profile is issued
Setup(c) ==
  /\ call[c].pc = "setup"
  /\ \/ Step(c, navigateProfile([call[c] EXCEPT !.pc = "goto1"], Cfg(c),
                                  FirstNavigation))
     \/ Step(c, finishPuppeteer(call[c], Cfg(c), puppeteerFailure(ExternalFault)))

\* the first navigation settles: on failure the retry navigation is issued
Goto1(c) ==
  /\ call[c].pc = "goto1"
  /\ \/ Step(c, [call[c] EXCEPT !.pc = "profile"])
     \/ Step(c, navigateProfile([call[c] EXCEPT !.pc = "goto2"], Cfg(c),
                                  RetryNavigation))

Goto2_retriesAgain(c) ==
  /\ call[c].pc = "goto2"
  /\ \/ Step(c, [call[c] EXCEPT !.pc = "profile"])
     \/ IF Len(call[c].navs) < 3
          THEN Step(c, navigateProfile(call[c], Cfg(c), RetryNavigation))
          ELSE Step(c, finishPuppeteer(call[c], Cfg(c),
                                       puppeteerFailure(ExternalFault)))

\* the retry navigation settles: its failure fails the strategy
Goto2(c) ==
  /\ call[c].pc = "goto2"
  /\ \/ Step(c, [call[c] EXCEPT !.pc = "profile"])
     \/ Step(c, finishPuppeteer(call[c], Cfg(c), puppeteerFailure(ExternalFault)))

ProfileFailures ==
  {ExternalFault,
   "No posts found on the profile after trying all selectors",
   "No post links found on the page"}

\* screenshot, settle delay, consent button, post selectors, post links;
\* then the navigation to the first post link is issued
Profile(c) ==
  /\ call[c].pc = "profile"
  /\ \/ Step(c, [call[c] EXCEPT !.pc = "post"])
     \/ \E msg \in ProfileFailures :
          Step(c, finishPuppeteer(call[c], Cfg(c), puppeteerFailure(msg)))

\* post navigation, screenshot, post page selectors, extraction of caption,
\* image and timestamp, image heuristic
Post(c) ==
  /\ call[c].pc = "post"
  /\ \/ \E post \in PuppeteerPosts :
          Step(c, finishPuppeteer(call[c], Cfg(c), Success(post)))
     \/ \E msg \in {ExternalFault,
                    "Post page elements not found after trying all selectors"} :
          Step(c, finishPuppeteer(call[c], Cfg(c), puppeteerFailure(msg)))
     \/ Step(c, finishPuppeteer([call[c] EXCEPT !.partial = TRUE], Cfg(c),
                  puppeteerFailure("Could not extract image URL from the post")))

\* await browser.close() in the finally block: when it raises, the raise
\* replaces the result and getLatestPost rejects
Close(c) ==
  /\ call[c].pc = "close"
  /\ \/ Step(c, afterPuppeteer([call[c] EXCEPT !.session = "none",
                                                !.pending = Unset],
                               Cfg(c), call[c].pending))
     \/ Step(c, [call[c] EXCEPT !.pc = "raised", !.pending = Unset])

CouldNotExtractText ==
  "Could not extract Instagram post data using any available method"

\* what lines 463-615 make of a non-empty response body
ProcessResults ==
  {Success(p) : p \in ScriptPosts \cup DirectPosts}
  \cup {cheerioFailure(<<m>>) :
          m \in {ExternalFault, "Invalid HTML content received",
                 CouldNotExtractText}}
  \cup {cheerioFailure(<<"Failed to parse HTML with Cheerio: ", ExternalFault>>)}

\* one axios.get of the retry loop settles (partial: direct markup extraction
\* had found a post link but no image)
Fetch(c) ==
  /\ call[c].pc = "fetch"
  /\ \/ \E res \in ProcessResults : Step(c, afterCheerio(call[c], Cfg(c), res))
     \/ Step(c, afterCheerio([call[c] EXCEPT !.partial = TRUE], Cfg(c),
                              cheerioFailure(<<CouldNotExtractText>>)))
     \/ \E msg \in {ExternalFault, "Empty response received"} :
          LET k == [call[c] EXCEPT !.retryCount = @ + 1] IN
          IF k.retryCount >= maxRetries
            THEN Step(c, afterCheerio(k, Cfg(c),
                   cheerioFailure(<<"Failed after 3 attempts: ", msg>>)))
            ELSE Step(c, [k EXCEPT !.pc = "backoff"])

\* the backoff sleep ends and the next axios.get is issued
Backoff(c) ==
  /\ call[c].pc = "backoff"
  /\ Step(c, requestProfile([call[c] EXCEPT !.pc = "fetch"], Cfg(c)))

ApiResults ==
  {Success(p) : p \in ApiPosts}
  \cup {Failure(<<"No posts found">>), Failure(<<ApiPrefix, ExternalFault>>)}

\* the Graph API request settles
Api(c) ==
  /\ call[c].pc = "api"
  /\ \E res \in ApiResults : Step(c, afterApi(call[c], res))

\* the route handler answers the request
Respond(c) ==
  /\ call[c].pc \in {"done", "raised"}
  /\ Step(c, Idle)

\* POST /instagram/username: a missing username is rejected, otherwise
\* this.instagramService.setUsername(username)
updateUsername(u) ==
  IF u = ""
    THEN UNCHANGED vars
    ELSE /\ config' = [config EXCEPT !["instagramController"] = setUsername(@, u)]
         /\ lastUpdate' = <<u>>
         /\ UNCHANGED <<call, unit>>

\* no step sequence is run on its own
NoUnit == [kind |-> "none"]

\* both controllers run `new InstagramService()` in the same environment
Init ==
  /\ \E token \in BOOLEAN, envUsername \in EnvUsernames :
       config = [s \in Services |-> InstagramService(<<>>, envUsername, token)]
  /\ call = [c \in Calls |-> Idle]
  /\ lastUpdate = <<>>
  /\ unit = NoUnit

Next ==
  \/ \E c \in Calls, r \in Routes : getLatestPost(c, r)
  \/ \E c \in Calls : Launch(c)
  \/ \E c \in Calls : Setup(c)
  \/ \E c \in Calls : Goto1(c)
  \/ \E c \in Calls : Goto2(c)
  \/ \E c \in Calls : Profile(c)
  \/ \E c \in Calls : Post(c)
  \/ \E c \in Calls : Close(c)
  \/ \E c \in Calls : Fetch(c)
  \/ \E c \in Calls : Backoff(c)
  \/ \E c \in Calls : Api(c)
  \/ \E c \in Calls : Respond(c)
  \/ \E u \in Usernames \cup {""} : updateUsername(u)

Spec == Init /\ [][Next]_vars

\* every awaited operation of a call (browser step, HTTP request, backoff
\* sleep) settles in the end: it returns, raises or times out
FairSpec ==
  Spec /\ \A c \in Calls :
            WF_vars(\/ Launch(c) \/ Setup(c) \/ Goto1(c) \/ Goto2(c)
                    \/ Profile(c) \/ Post(c) \/ Close(c) \/ Fetch(c)
                    \/ Backoff(c) \/ Api(c))

\* ------------------------------------------------------------------------
\* Step sequences of the strategies, run on their own (SpecUnit)
\* ------------------------------------------------------------------------

\* the elements of a sequence
Range(s) == {s[i] : i \in 1..Len(s)}

\* const postSelectors = [...] of fetchViaPuppeteer
postSelectors ==
  << "article a, a[href*=\"/p/\"]",
     "a[href*=\"/p/\"]",
     "div[role=\"button\"] a",
     "main article a",
     "div._aagw a",
     "div._aabd a",
     "div[class*=\"_aa\"] a[href*=\"/p/\"]",
     "a[role=\"link\"][tabindex=\"0\"][href*=\"/p/\"]",
     "main a[href^=\"/p/\"]",
     "div[role=\"presentation\"] a[href^=\"/p/\"]" >>

\* let foundSelector = false; let workingSelector = ''; the loop is about to
\* probe the first selector (page: the selectors whose waitForSelector
\* resolves on the rendered profile; probed: the selectors waited for)
CascadeStart(page) ==
  [kind |-> "cascade", pc |-> "probe", page |-> page, next |-> 1,
   probed |-> <<>>, foundSelector |-> FALSE, workingSelector |-> "",
   error |-> <<>>]

waitForSelector_noBreak(u) ==
  LET selector == postSelectors[u.next]
      u1 == IF selector \in u.page
              THEN [u EXCEPT !.probed = Append(@, selector),
                             !.foundSelector = TRUE,
                             !.workingSelector = selector]
              ELSE [u EXCEPT !.probed = Append(@, selector)] IN
  IF u.next < Len(postSelectors) THEN [u1 EXCEPT !.next = @ + 1]
  ELSE IF u1.foundSelector THEN [u1 EXCEPT !.pc = "links"]
  ELSE [u1 EXCEPT !.pc = "failed",
          !.error = <<"No posts found on the profile after trying all selectors">>]

\* one iteration of `for (const selector of postSelectors)`: await
\* page.waitForSelector(selector); a match breaks out of the loop, a miss or
\* any other rejection moves on; after the last miss the strategy throws
waitForSelector(u) ==
  LET selector == postSelectors[u.next]
      u1 == [u EXCEPT !.probed = Append(@, selector)] IN
  IF selector \in u.page
    THEN [u1 EXCEPT !.foundSelector = TRUE, !.workingSelector = selector,
                    !.pc = "links"]
    ELSE IF u.next < Len(postSelectors)
           THEN [u1 EXCEPT !.next = @ + 1]
           ELSE [u1 EXCEPT !.pc = "failed",
                   !.error = <<"No posts found on the profile after trying all selectors">>]

WaitForSelector ==
  /\ unit.kind = "cascade"
  /\ unit.pc = "probe"
  /\ unit' = waitForSelector(unit)
  /\ UNCHANGED <<config, call, lastUpdate>>

\* response.data of the profile request: a string (a sequence of
\* characters, <<>> the empty string) or a value that is not a string
Bodies ==
  {[type |-> "string", text |-> t] :
     t \in {<<>>, <<" ">>, <<"<html>">>, <<" ", "<html>", " ">>}}
  \cup {[type |-> "object", text |-> <<"bytes">>]}

\* how an axios.get settles: rejected (ok = FALSE) or resolved with a body
Responses ==
  {[ok |-> FALSE, data |-> [type |-> "string", text |-> <<>>]]}
  \cup {[ok |-> TRUE, data |-> b] : b \in Bodies}

\* Math.random() * 1000, in whole milliseconds
Jitters == {0, 500, 999}

\* if (response.data): the empty string is falsy
truthy(body) == body.type # "string" \/ body.text # <<>>

RECURSIVE trimStart(_)
\* leading white space removed
trimStart(t) ==
  IF t # <<>> /\ Head(t) = " " THEN trimStart(Tail(t)) ELSE t

RECURSIVE trimEnd(_)
\* trailing white space removed
trimEnd(t) ==
  IF t # <<>> /\ t[Len(t)] = " " THEN trimEnd(SubSeq(t, 1, Len(t) - 1)) ELSE t

\* html.trim()
trim(t) == trimEnd(trimStart(t))

RECURSIVE pow(_, _)
\* Math.pow(base, n)
pow(base, n) == IF n = 0 THEN 1 ELSE base * pow(base, n - 1)

backoffDelay_fixed(retryCount, jitter) == 2 * 1000 + jitter

\* const delay = Math.pow(2, retryCount) * 1000 + Math.random() * 1000
backoffDelay(retryCount, jitter) == pow(2, retryCount) * 1000 + jitter

\* fetchViaCheerio has issued the first axios.get: let html = '' (attempts:
\* the requests issued; settled: how each settled; waits: the delays slept;
\* artifact: what became of logs/instagram-profile.html)
RetryStart ==
  [kind |-> "retry", pc |-> "fetch", retryCount |-> 0, attempts |-> 1,
   settled |-> <<>>, waits |-> <<>>,
   html |-> [type |-> "string", text |-> <<>>], artifact |-> "none",
   result |-> <<>>]

\* html = response.data; break; fs.writeFileSync(html), then
\* if (!html || typeof html !== 'string' || html.trim().length === 0) throw
saveAndValidate(u, body, writeFails) ==
  LET k == [u EXCEPT !.html = body] IN
  IF writeFails
    THEN [k EXCEPT !.pc = "done", !.artifact = "failed",
            !.result = <<cheerioFailure(<<ExternalFault>>)>>]
  ELSE IF body.type # "string" \/ Len(trim(body.text)) = 0
    THEN [k EXCEPT !.pc = "done", !.artifact = "written",
            !.result = <<cheerioFailure(<<"Invalid HTML content received">>)>>]
  ELSE [k EXCEPT !.pc = "parse", !.artifact = "written"]

axiosGet_emptyNotRetried(u, io) ==
  LET r == io.response IN
  IF r.ok /\ truthy(r.data)
    THEN saveAndValidate([u EXCEPT !.settled = Append(@, "body")],
                         r.data, io.writeFails)
  ELSE IF r.ok
    THEN [u EXCEPT !.settled = Append(@, "empty"), !.pc = "done",
            !.result = <<cheerioFailure(<<"Empty response received">>)>>]
  ELSE LET retryCount == u.retryCount + 1
           k == [u EXCEPT !.retryCount = retryCount,
                          !.settled = Append(@, "error")] IN
       IF retryCount >= maxRetries
         THEN [k EXCEPT !.pc = "done",
                 !.result = <<cheerioFailure(<<"Failed after 3 attempts: ",
                                               ExternalFault>>)>>]
         ELSE [k EXCEPT !.pc = "sleep",
                 !.waits = Append(@, backoffDelay(retryCount, io.jitter))]

\* one pass of `while (retryCount < maxRetries)`: the axios.get settles; a
\* truthy body breaks out of the loop, an empty body throws inside the try;
\* the catch counts the failure, gives up at maxRetries, otherwise computes
\* the delay and sleeps
axiosGet(u, io) ==
  LET r == io.response IN
  IF r.ok /\ truthy(r.data)
    THEN saveAndValidate([u EXCEPT !.settled = Append(@, "body")],
                         r.data, io.writeFails)
  ELSE LET errorMessage == IF r.ok THEN "Empty response received"
                                   ELSE ExternalFault
           retryCount == u.retryCount + 1
           k == [u EXCEPT !.retryCount = retryCount,
                          !.settled = Append(@, IF r.ok THEN "empty" ELSE "error")] IN
       IF retryCount >= maxRetries
         THEN [k EXCEPT !.pc = "done",
                 !.result = <<cheerioFailure(<<"Failed after 3 attempts: ",
                                               errorMessage>>)>>]
         ELSE [k EXCEPT !.pc = "sleep",
                 !.waits = Append(@, backoffDelay(retryCount, io.jitter))]

AxiosGet ==
  /\ unit.kind = "retry"
  /\ unit.pc = "fetch"
  /\ \E r \in Responses, j \in Jitters, w \in BOOLEAN :
       unit' = axiosGet(unit, [response |-> r, jitter |-> j, writeFails |-> w])
  /\ UNCHANGED <<config, call, lastUpdate>>

\* await new Promise(resolve => setTimeout(resolve, delay)) ends and the
\* loop issues the next axios.get
Sleep ==
  /\ unit.kind = "retry"
  /\ unit.pc = "sleep"
  /\ unit' = [unit EXCEPT !.pc = "fetch", !.attempts = @ + 1]
  /\ UNCHANGED <<config, call, lastUpdate>>

\* edges[0].node of the embedded state: each property present or absent
\* (caption: edge_media_to_caption.edges[0].node.text)
Nodes ==
  [id : {<<>>, <<"X">>},
   caption : {<<>>, <<"">>, <<"hello">>},
   display_url : {<<>>, <<"http://img">>},
   taken_at_timestamp : {<<>>, <<0>>, <<86399>>},
   liked_by : {<<>>, <<7>>},
   shortcode : {<<>>, <<"abc">>}]

\* new Date(ms).toISOString() for an instant of January 1970
toISOString(ms) ==
  LET s == ms \div 1000 IN
  [year |-> 1970, month |-> 1, day |-> 1 + (s \div 86400),
   hour |-> (s % 86400) \div 3600, minute |-> (s % 3600) \div 60,
   second |-> s % 60, millisecond |-> ms % 1000]

\* `${value}` of an optional property
interpolate(value) == IF value = <<>> THEN "undefined" ELSE value[1]

\* the embedded state of the only script block has been parsed and its
\* first edge is about to be mapped
ExtractStart(node) ==
  [kind |-> "extract", pc |-> "edge", node |-> node, result |-> <<>>]

mapPost_postUrlFromId(u) ==
  IF u.node.taken_at_timestamp = <<>>
    THEN [u EXCEPT !.pc = "skipped"]
    ELSE [u EXCEPT !.pc = "returned", !.result = <<Success(
           [id |-> u.node.id,
            caption |-> IF u.node.caption # <<>> /\ u.node.caption[1] # ""
                          THEN u.node.caption[1] ELSE "No caption",
            imageUrl |-> u.node.display_url,
            timestamp |-> toISOString(u.node.taken_at_timestamp[1] * 1000),
            likes |-> u.node.liked_by,
            postUrl |-> <<"https://www.instagram.com/p/",
                          interpolate(u.node.id), "/">>])>>]

\* const post = { id, caption, imageUrl, timestamp, likes, postUrl } and
\* return { success: true, data: post }; toISOString raises for a timestamp
\* that is not a number, the catch logs it and the block yields nothing
mapPost(u) ==
  IF u.node.taken_at_timestamp = <<>>
    THEN [u EXCEPT !.pc = "skipped"]
    ELSE [u EXCEPT !.pc = "returned", !.result = <<Success(
           [id |-> u.node.id,
            caption |-> IF u.node.caption # <<>> /\ u.node.caption[1] # ""
                          THEN u.node.caption[1] ELSE "No caption",
            imageUrl |-> u.node.display_url,
            timestamp |-> toISOString(u.node.taken_at_timestamp[1] * 1000),
            likes |-> u.node.liked_by,
            postUrl |-> <<"https://www.instagram.com/p/",
                          interpolate(u.node.shortcode), "/">>])>>]

MapPost ==
  /\ unit.kind = "extract"
  /\ unit.pc = "edge"
  /\ unit' = mapPost(unit)
  /\ UNCHANGED <<config, call, lastUpdate>>

\* ------------------------------------------------------------------------
\* Route handlers, run on their own against settled service calls
\* ------------------------------------------------------------------------

\* res.status(status).json({ success, message, error, data }); message and
\* error are texts, data is optional (absent = <<>>)
Response(status, success, message, error, data) ==
  [status |-> status, success |-> success, message |-> message,
   error |-> error, data |-> data]

\* no response has been sent
NoResponse == Response(0, FALSE, <<>>, <<>>, <<>>)

\* createErrorResponse(message, error, statusCode), sent with that status
createErrorResponse(message, error, statusCode) ==
  Response(statusCode, FALSE,
           <<IF statusCode = 500 /\ message = "Request failed"
               THEN "Failed to process request" ELSE message>>,
           error, <<>>)

\* handleValidationError(res, message): statusCode defaults to 400
handleValidationError(message) ==
  createErrorResponse("Validation failed", <<message>>, 400)

\* new Error(message)
Error(message) ==
  [instanceofError |-> TRUE, instanceofApiError |-> FALSE,
   message |-> message, statusCode |-> 500]

\* new ApiError(message, statusCode)
ApiError(message, statusCode) ==
  [instanceofError |-> TRUE, instanceofApiError |-> TRUE,
   message |-> message, statusCode |-> statusCode]

\* a thrown value that is no Error
NonError ==
  [instanceofError |-> FALSE, instanceofApiError |-> FALSE,
   message |-> <<>>, statusCode |-> 500]

asyncHandlerCatch_always500(error) ==
  LET errorMessage == IF error.instanceofError THEN error.message
                                               ELSE <<"Unknown error">>
  IN createErrorResponse(IF errorMessage = <<"Summarization failed">>
                           THEN "Failed to summarize caption"
                           ELSE "Failed to process request",
                         errorMessage, 500)

\* the catch of asyncHandler: the response it sends for the value caught
asyncHandlerCatch(error) ==
  LET errorMessage == IF error.instanceofError THEN error.message
                                               ELSE <<"Unknown error">>
      statusCode == IF error.instanceofApiError THEN error.statusCode ELSE 500
  IN createErrorResponse(IF errorMessage = <<"Summarization failed">>
                           THEN "Failed to summarize caption"
                           ELSE "Failed to process request",
                         errorMessage, statusCode)

\* the catch of asyncHandler for a raised Error that is no ApiError
asyncHandler(errorMessage) == asyncHandlerCatch(Error(errorMessage))

\* what getLatestPost() of a service can return
Outcomes ==
  {Success(p) : p \in PuppeteerPosts \cup ScriptPosts \cup DirectPosts \cup ApiPosts}
  \cup {allMethodsFailed}

\* how an awaited getLatestPost() settles: it returns an outcome or it
\* raises (error: the message of the raised Error)
Retrievals ==
  {[raised |-> FALSE, value |-> o, error |-> <<>>] : o \in Outcomes}
  \cup {[raised |-> TRUE, value |-> Unset, error |-> <<ExternalFault>>]}

\* GET /instagram/latest has called this.instagramService.getLatestPost()
LatestStart ==
  [kind |-> "latest", pc |-> "retrieve", retrieval |-> <<>>,
   response |-> NoResponse]

getLatestPostRoute_failureAs500(u, settled) ==
  LET result == settled.value
      k == [u EXCEPT !.pc = "responded", !.retrieval = <<settled>>] IN
  IF settled.raised
    THEN [k EXCEPT !.response = asyncHandler(settled.error)]
  ELSE IF result.success /\ result.data # <<>>
    THEN [k EXCEPT !.response = Response(200, TRUE, <<>>, <<>>, result.data)]
  ELSE [k EXCEPT !.response =
          createErrorResponse("Server error", result.error, 500)]

\* InstagramController.getLatestPost after its await: 200 with the record,
\* 404 with result.error || 'Failed to retrieve latest Instagram post';
\* a raise is answered by asyncHandler
getLatestPostRoute(u, settled) ==
  LET result == settled.value
      k == [u EXCEPT !.pc = "responded", !.retrieval = <<settled>>] IN
  IF settled.raised
    THEN [k EXCEPT !.response = asyncHandler(settled.error)]
  ELSE IF result.success /\ result.data # <<>>
    THEN [k EXCEPT !.response = Response(200, TRUE, <<>>, <<>>, result.data)]
  ELSE [k EXCEPT !.response =
          Response(404, FALSE, <<>>,
                   IF result.error # <<>>
                     THEN result.error
                     ELSE <<"Failed to retrieve latest Instagram post">>,
                   <<>>)]

GetLatestPostRoute ==
  /\ unit.kind = "latest"
  /\ unit.pc = "retrieve"
  /\ \E settled \in Retrievals : unit' = getLatestPostRoute(unit, settled)
  /\ UNCHANGED <<config, call, lastUpdate>>

\* req.body.username of a username-update request (<<>>: no such property)
BodyUsernames == {<<>>, <<"">>, <<"newuser">>}

\* POST /instagram/username has arrived with this body; the service holds
\* cfg (invoked: the service methods the handler has called)
UpdateStart(cfg, username) ==
  [kind |-> "update", pc |-> "request", username |-> username,
   before |-> cfg, config |-> cfg, invoked |-> <<>>, response |-> NoResponse]

updateUsernameRoute_validatesLast(u) ==
  LET name == IF u.username = <<>> THEN "" ELSE u.username[1]
      k == [u EXCEPT !.pc = "responded",
                     !.config = setUsername(@, name),
                     !.invoked = Append(@, "setUsername")] IN
  IF name = ""
    THEN [k EXCEPT !.response = handleValidationError("Username is required")]
    ELSE [k EXCEPT !.response =
            Response(200, TRUE, <<"Username updated to: ", name>>, <<>>, <<>>)]

\* InstagramController.updateUsername: if (!username) the validation error
\* is sent, otherwise setUsername(username) and 200
updateUsernameRoute(u) ==
  IF u.username = <<>> \/ u.username[1] = ""
    THEN [u EXCEPT !.pc = "responded",
                   !.response = handleValidationError("Username is required")]
    ELSE [u EXCEPT !.pc = "responded",
                   !.config = setUsername(@, u.username[1]),
                   !.invoked = Append(@, "setUsername"),
                   !.response =
                     Response(200, TRUE,
                              <<"Username updated to: ", u.username[1]>>,
                              <<>>, <<>>)]

UpdateUsernameRoute ==
  /\ unit.kind = "update"
  /\ unit.pc = "request"
  /\ unit' = updateUsernameRoute(unit)
  /\ UNCHANGED <<config, call, lastUpdate>>

\* how an awaited llmService.summarizeText() settles: { summary } or the
\* Error it raises for any fault of the model call
Summarizations ==
  {[raised |-> FALSE, summary |-> <<"short summary">>, error |-> <<>>],
   [raised |-> TRUE, summary |-> <<>>,
    error |-> <<"Failed to summarize text: ", ExternalFault>>]}

\* how an awaited posting operation settles: both operations return
\* { success, message, data } or { success: false, message, error };
\* only fs.unlinkSync in the finally of postTweetWithMedia can raise
Postings(op) ==
  {[raised |-> FALSE, error |-> <<>>,
    result |-> [success |-> TRUE, message |-> <<"Tweet posted successfully">>,
                error |-> <<>>, data |-> <<[id |-> "1"]>>]],
   [raised |-> FALSE, error |-> <<>>,
    result |-> [success |-> FALSE, message |-> <<"Failed to post tweet">>,
                error |-> <<ExternalFault>>, data |-> <<>>]]}
  \cup (IF op = "postTweetWithMedia"
          THEN {[raised |-> TRUE, error |-> <<ExternalFault>>,
                 result |-> [success |-> FALSE, message |-> <<>>,
                             error |-> <<>>, data |-> <<>>]]}
          ELSE {})

\* a call of a service operation with its arguments
Invocation(op, args) == [op |-> op, args |-> args]

\* POST /instagram-to-twitter has read imageUpload (default false) and
\* called getLatestPost() (invoked: the summarizer and posting calls made)
WorkflowStart(imageUpload) ==
  [kind |-> "workflow", pc |-> "retrieve", imageUpload |-> imageUpload,
   retrieval |-> <<>>, summary |-> <<>>, invoked |-> <<>>,
   response |-> NoResponse]

fetchAndPostRetrieved_noCheck(u, settled) ==
  LET k == [u EXCEPT !.retrieval = <<settled>>] IN
  IF settled.raised
    THEN [k EXCEPT !.pc = "responded", !.response = asyncHandler(settled.error)]
    ELSE [k EXCEPT !.pc = "summarize",
            !.invoked = Append(@, Invocation("summarizeText", <<"No caption">>))]

\* fetchAndPostToTwitter after `await getLatestPost()`: 404 unless the
\* result is a success with data, otherwise summarizeText({ text: caption })
fetchAndPostRetrieved(u, settled) ==
  LET instagramResult == settled.value
      k == [u EXCEPT !.retrieval = <<settled>>] IN
  IF settled.raised
    THEN [k EXCEPT !.pc = "responded", !.response = asyncHandler(settled.error)]
  ELSE IF ~instagramResult.success \/ instagramResult.data = <<>>
    THEN [k EXCEPT !.pc = "responded",
            !.response =
              Response(404, FALSE, <<"Failed to fetch Instagram post">>,
                       IF instagramResult.error # <<>>
                         THEN instagramResult.error
                         ELSE <<"No Instagram post found">>,
                       <<>>)]
  ELSE [k EXCEPT !.pc = "summarize",
          !.invoked = Append(@, Invocation("summarizeText",
                                           <<instagramResult.data[1].caption>>))]

choosePosting_ignoresImageUrl(imageUpload, imageUrl, summary) ==
  IF imageUpload
    THEN Invocation("postTweetWithMedia", <<summary, imageUrl>>)
    ELSE Invocation("postTweet", <<summary>>)

\* if (imageUpload && imageUrl) postTweetWithMedia(summary, imageUrl)
\* else postTweet(summary)
choosePosting(imageUpload, imageUrl, summary) ==
  IF imageUpload /\ imageUrl # ""
    THEN Invocation("postTweetWithMedia", <<summary, imageUrl>>)
    ELSE Invocation("postTweet", <<summary>>)

\* fetchAndPostToTwitter after `await summarizeText()`: a raise is answered
\* by asyncHandler, otherwise one posting operation is called
fetchAndPostSummarized(u, settled) ==
  IF settled.raised
    THEN [u EXCEPT !.pc = "responded", !.response = asyncHandler(settled.error)]
    ELSE [u EXCEPT !.pc = "post", !.summary = settled.summary,
            !.invoked = Append(@, choosePosting(u.imageUpload,
                                   u.retrieval[1].value.data[1].imageUrl,
                                   settled.summary[1]))]

\* fetchAndPostToTwitter after the posting operation: 200 with the record
\* and the tweet, 400 with the posting error
fetchAndPostPosted(u, settled) ==
  LET tweetResult == settled.result
      post == u.retrieval[1].value.data[1] IN
  IF settled.raised
    THEN [u EXCEPT !.pc = "responded", !.response = asyncHandler(settled.error)]
  ELSE IF tweetResult.success
    THEN [u EXCEPT !.pc = "responded",
            !.response =
              Response(200, TRUE,
                <<"Successfully fetched Instagram data and posted to Twitter">>,
                <<>>,
                <<[instagram |-> post, tweetId |-> tweetResult.data[1].id,
                   tweetText |-> u.summary[1]]>>)]
  ELSE [u EXCEPT !.pc = "responded",
          !.response =
            Response(400, FALSE, <<"Failed to post to Twitter">>,
                     tweetResult.error,
                     <<[instagram |-> post, summary |-> u.summary[1]]>>)]

FetchAndPostRetrieve ==
  /\ unit.kind = "workflow"
  /\ unit.pc = "retrieve"
  /\ \E settled \in Retrievals : unit' = fetchAndPostRetrieved(unit, settled)
  /\ UNCHANGED <<config, call, lastUpdate>>

FetchAndPostSummarize ==
  /\ unit.kind = "workflow"
  /\ unit.pc = "summarize"
  /\ \E settled \in Summarizations : unit' = fetchAndPostSummarized(unit, settled)
  /\ UNCHANGED <<config, call, lastUpdate>>

FetchAndPostPost ==
  /\ unit.kind = "workflow"
  /\ unit.pc = "post"
  /\ \E settled \in Postings(unit.invoked[Len(unit.invoked)].op) :
       unit' = fetchAndPostPosted(unit, settled)
  /\ UNCHANGED <<config, call, lastUpdate>>

\* the routes of TwitterController
TwitterRoutes == {"summarize", "tweet", "tweet-with-media"}

\* req.body of a TwitterController request: each property absent (<<>>),
\* empty or present
TwitterBodies ==
  [instagramCaption : {<<>>, <<"">>, <<"hello">>},
   imageUrl : {<<>>, <<"">>, <<"http://img">>}]

\* a TwitterController route has received a request
TwitterStart(route, body) ==
  [kind |-> "twitter", pc |-> "request", route |-> route, body |-> body,
   summary |-> <<>>, invoked |-> <<>>, posting |-> <<>>,
   response |-> NoResponse]

\* !value of an optional string property
missing(value) == value = <<>> \/ value[1] = ""

twitterValidated_summarizesFirst(u) ==
  [u EXCEPT !.pc = "summarize",
            !.invoked = Append(@, Invocation("summarizeText",
                                             <<u.body.instagramCaption>>))]

\* the validation of postTweet, summarizeCaption and postTweetWithMedia,
\* then llmService.summarizeText({ text: instagramCaption })
twitterValidated(u) ==
  IF u.route = "tweet-with-media" /\
     (missing(u.body.instagramCaption) \/ missing(u.body.imageUrl))
    THEN [u EXCEPT !.pc = "responded",
            !.response = handleValidationError(
                           "Both Instagram caption and image URL are required")]
  ELSE IF u.route # "tweet-with-media" /\ missing(u.body.instagramCaption)
    THEN [u EXCEPT !.pc = "responded",
            !.response = handleValidationError("Instagram caption is required")]
  ELSE [u EXCEPT !.pc = "summarize",
          !.invoked = Append(@, Invocation("summarizeText",
                                           <<u.body.instagramCaption[1]>>))]

\* after `await summarizeText()`: summarizeCaption answers 200, the other
\* two routes call their posting operation; a raise goes to asyncHandler
twitterSummarized(u, settled) ==
  IF settled.raised
    THEN [u EXCEPT !.pc = "responded", !.response = asyncHandler(settled.error)]
  ELSE IF u.route = "summarize"
    THEN [u EXCEPT !.pc = "responded", !.summary = settled.summary,
            !.response = Response(200, TRUE, <<"Caption summarized successfully">>,
                                  <<>>, <<[tweetText |-> settled.summary[1]]>>)]
  ELSE IF u.route = "tweet"
    THEN [u EXCEPT !.pc = "post", !.summary = settled.summary,
            !.invoked = Append(@, Invocation("postTweet", <<settled.summary[1]>>))]
  ELSE [u EXCEPT !.pc = "post", !.summary = settled.summary,
          !.invoked = Append(@, Invocation("postTweetWithMedia",
                                 <<settled.summary[1], u.body.imageUrl[1]>>))]

\* res.status(tweetResult.success ? 200 : 400).json(tweetResult)
twitterPosted(u, settled) ==
  LET tweetResult == settled.result IN
  IF settled.raised
    THEN [u EXCEPT !.pc = "responded", !.response = asyncHandler(settled.error)]
    ELSE [u EXCEPT !.pc = "responded", !.posting = <<tweetResult>>,
            !.response = Response(IF tweetResult.success THEN 200 ELSE 400,
                                  tweetResult.success, tweetResult.message,
                                  tweetResult.error, tweetResult.data)]

TwitterValidate ==
  /\ unit.kind = "twitter"
  /\ unit.pc = "request"
  /\ unit' = twitterValidated(unit)
  /\ UNCHANGED <<config, call, lastUpdate>>

TwitterSummarize ==
  /\ unit.kind = "twitter"
  /\ unit.pc = "summarize"
  /\ \E settled \in Summarizations : unit' = twitterSummarized(unit, settled)
  /\ UNCHANGED <<config, call, lastUpdate>>

TwitterPost ==
  /\ unit.kind = "twitter"
  /\ unit.pc = "post"
  /\ \E settled \in Postings(unit.invoked[Len(unit.invoked)].op) :
       unit' = twitterPosted(unit, settled)
  /\ UNCHANGED <<config, call, lastUpdate>>

\* the name uuidv4() gives the temporary image file of a call
TempFile == "uuid.jpg"

\* postTweetWithMedia(tweetText, imageUrl) has been called: imagePath is
\* null (tooLong: tweetText.length > 280; tempFiles: the files of this call
\* in the temp directory)
MediaStart(tooLong) ==
  [kind |-> "media", pc |-> "start", tooLong |-> tooLong, tempFiles |-> {},
   imagePath |-> <<>>, result |-> <<>>]

\* return { success: false, message: 'Failed to post tweet with media', error }
mediaFailure(errorMessage) ==
  [success |-> FALSE, message |-> <<"Failed to post tweet with media">>,
   error |-> errorMessage, data |-> <<>>]

\* the finally block: if (imagePath && fs.existsSync(imagePath))
\* fs.unlinkSync(imagePath), which may raise; then the result is returned
cleanup(u, result, unlinkFails) ==
  IF u.imagePath # <<>> /\ u.imagePath[1] \in u.tempFiles
    THEN IF unlinkFails
           THEN [u EXCEPT !.pc = "raised"]
           ELSE [u EXCEPT !.pc = "returned", !.result = <<result>>,
                          !.tempFiles = @ \ {u.imagePath[1]}]
    ELSE [u EXCEPT !.pc = "returned", !.result = <<result>>]

\* the length check, then downloadImage up to its axios request:
\* fs.createWriteStream(imagePath) creates the file in the temp directory
mediaCalled(u) ==
  IF u.tooLong
    THEN cleanup(u, [success |-> FALSE,
                     message |-> <<"Tweet exceeds character limit">>,
                     error |-> <<"Tweet must be 280 characters or less">>,
                     data |-> <<>>], FALSE)
    ELSE [u EXCEPT !.pc = "download", !.tempFiles = @ \cup {TempFile}]

\* the axios request of downloadImage settles: the response is piped into
\* the writer, or the catch raises 'Failed to download image: ...'
mediaDownloaded(u, ok, unlinkFails) ==
  IF ok THEN [u EXCEPT !.pc = "stream"]
        ELSE cleanup(u, mediaFailure(<<"Failed to download image: ",
                                        ExternalFault>>), unlinkFails)

\* the promise of downloadImage settles: 'finish' resolves imagePath, an
\* 'error' of the writer or of the response stream rejects
mediaStreamed(u, ok, unlinkFails) ==
  IF ok THEN [u EXCEPT !.pc = "upload", !.imagePath = <<TempFile>>]
        ELSE cleanup(u, mediaFailure(<<ExternalFault>>), unlinkFails)

\* await this.client.v1.uploadMedia(imagePath) settles
mediaUploaded(u, ok, unlinkFails) ==
  IF ok THEN [u EXCEPT !.pc = "tweet"]
        ELSE cleanup(u, mediaFailure(<<ExternalFault>>), unlinkFails)

\* await this.client.v2.tweet({ text, media }) settles
mediaTweeted(u, ok, unlinkFails) ==
  IF ok THEN cleanup(u, [success |-> TRUE,
                         message |-> <<"Tweet with media posted successfully">>,
                         error |-> <<>>, data |-> <<[id |-> "1"]>>],
                     unlinkFails)
        ELSE cleanup(u, mediaFailure(<<ExternalFault>>), unlinkFails)

PostTweetWithMedia ==
  /\ unit.kind = "media"
  /\ unit.pc = "start"
  /\ unit' = mediaCalled(unit)
  /\ UNCHANGED <<config, call, lastUpdate>>

DownloadImage ==
  /\ unit.kind = "media"
  /\ unit.pc = "download"
  /\ \E ok \in BOOLEAN, unlinkFails \in BOOLEAN :
       unit' = mediaDownloaded(unit, ok, unlinkFails)
  /\ UNCHANGED <<config, call, lastUpdate>>

WriteImage ==
  /\ unit.kind = "media"
  /\ unit.pc = "stream"
  /\ \E ok \in BOOLEAN, unlinkFails \in BOOLEAN :
       unit' = mediaStreamed(unit, ok, unlinkFails)
  /\ UNCHANGED <<config, call, lastUpdate>>

UploadMedia ==
  /\ unit.kind = "media"
  /\ unit.pc = "upload"
  /\ \E ok \in BOOLEAN, unlinkFails \in BOOLEAN :
       unit' = mediaUploaded(unit, ok, unlinkFails)
  /\ UNCHANGED <<config, call, lastUpdate>>

Tweet ==
  /\ unit.kind = "media"
  /\ unit.pc = "tweet"
  /\ \E ok \in BOOLEAN, unlinkFails \in BOOLEAN :
       unit' = mediaTweeted(unit, ok, unlinkFails)
  /\ UNCHANGED <<config, call, lastUpdate>>

\* the nesting paths at which the user object is looked for, in order:
\* jsonData.entry_data.ProfilePage[0].graphql.user, jsonData.user,
\* jsonData.data.user
NestingPaths == <<"entry_data.ProfilePage[0].graphql.user", "user", "data.user">>

\* what a nesting path holds: no user object ("absent"), a user without
\* edge_owner_to_timeline_media.edges ("undefined"), one with an empty edge
\* list ("empty") or one with post edges ("posts")
PathStates == {"absent", "undefined", "empty", "posts"}

\* the parsed payloads of a script block
JsonDatas == [Range(NestingPaths) -> PathStates]

\* let edges = null
NoEdges == [from |-> "none", list |-> "undefined"]

\* if (!edges && <user at path>) edges = user.edge_owner_to_timeline_media
\* ?.edges (an array, also an empty one, is truthy)
lookup(jsonData, path, edges) ==
  IF edges.list = "undefined" /\ jsonData[path] # "absent"
    THEN [from |-> path, list |-> jsonData[path]]
    ELSE edges

\* the three lookups of lines 539-552, in order
findEdges(jsonData) ==
  lookup(jsonData, NestingPaths[3],
    lookup(jsonData, NestingPaths[2],
      lookup(jsonData, NestingPaths[1], NoEdges)))

\* a script block's payload has been parsed into jsonData
PathsStart(jsonData) ==
  [kind |-> "paths", pc |-> "search", jsonData |-> jsonData,
   edges |-> NoEdges]

\* if (edges && edges.length > 0) the first edge is mapped and returned
\* (its node is well formed), otherwise the block yields nothing
searchPaths(u) ==
  LET edges == findEdges(u.jsonData) IN
  IF edges.list = "posts"
    THEN [u EXCEPT !.pc = "returned", !.edges = edges]
    ELSE [u EXCEPT !.pc = "skipped", !.edges = edges]

SearchPaths ==
  /\ unit.kind = "paths"
  /\ unit.pc = "search"
  /\ unit' = searchPaths(unit)
  /\ UNCHANGED <<config, call, lastUpdate>>

\* what a candidate script block is: it matches none of the three patterns,
\* its payload is no JSON, its payload holds no post edge, the mapping of its
\* first edge raises, or it yields a post
BlockKinds == {"noPattern", "badJson", "noEdge", "badNode", "post"}

\* the candidate script blocks of a document, in document order
Documents ==
  UNION {[1..n -> BlockKinds] : n \in 0..MaxBlocks}

\* the scan of scriptTags is about to start (scanned: the blocks processed;
\* result: the block that produced the success; anchors, images: what direct
\* HTML parsing found in the document; outcome: what it made of them)
ScanStart(blocks) ==
  [kind |-> "scan", pc |-> IF Len(blocks) = 0 THEN "fallback" ELSE "scan",
   blocks |-> blocks, next |-> 1, scanned |-> <<>>, result |-> <<>>,
   anchors |-> <<>>, images |-> <<>>, outcome |-> <<>>]

scanBlock_stopsAtBadJson(u) ==
  LET k == [u EXCEPT !.scanned = Append(@, u.next)] IN
  IF u.blocks[u.next] = "post"
    THEN [k EXCEPT !.pc = "returned", !.result = <<u.next>>]
  ELSE IF u.blocks[u.next] = "badJson" \/ u.next = Len(u.blocks)
    THEN [k EXCEPT !.pc = "fallback"]
  ELSE [k EXCEPT !.next = @ + 1]

\* one iteration of `for (let i = 0; i < scriptTags.length; i++)`: a block
\* yielding a post returns the success, every other block is logged and
\* passed over; after the last block direct HTML parsing is tried
scanBlock(u) ==
  LET k == [u EXCEPT !.scanned = Append(@, u.next)] IN
  IF u.blocks[u.next] = "post"
    THEN [k EXCEPT !.pc = "returned", !.result = <<u.next>>]
  ELSE IF u.next = Len(u.blocks)
    THEN [k EXCEPT !.pc = "fallback"]
  ELSE [k EXCEPT !.next = @ + 1]

ScanBlock ==
  /\ unit.kind = "scan"
  /\ unit.pc = "scan"
  /\ unit' = scanBlock(unit)
  /\ UNCHANGED <<config, call, lastUpdate>>

\* the anchors of a document, in document order, as their href attributes:
\* a relative post path, an absolute post address, an address of no post
AnchorLists ==
  LET Hrefs == { <<"/p/", "abc/">>,
                 <<"http", "s://www.instagram.com", "/p/", "xyz/">>,
                 <<"/explore/">> }
  IN {<<>>} \cup {<<h>> : h \in Hrefs} \cup {<<g, h>> : g, h \in Hrefs}

\* the images of a document, in document order, as their src attributes
ImageLists ==
  LET Srcs == { <<"https://static.cdn", "/sprite.png">>,
                <<"https://", "instagram", ".fcdn.net/first.jpg">>,
                <<"https://scontent.cdn", "instagram", ".com/second.jpg">> }
  IN {<<>>} \cup {<<i>> : i \in Srcs} \cup {<<i, j>> : i, j \in Srcs}

\* $('a[href*="/p/"]')
isPostLink(href) == Contains(href, <<"/p/">>)

\* $('img[src*="instagram"]')
isInstagramImage(src) == Contains(src, <<"instagram">>)

directParse_anyImage(u, anchors, images) ==
  LET postLinks == SelectSeq(anchors, isPostLink)
      k == [u EXCEPT !.pc = "done", !.anchors = anchors, !.images = images]
  IN
  IF postLinks # <<>> /\ images # <<>>
    THEN [k EXCEPT !.outcome =
            <<Success([caption |-> "Caption not available via direct HTML parsing",
                       imageUrl |-> Head(images),
                       postUrl |-> IF Head(Head(postLinks)) = "http"
                                     THEN Head(postLinks)
                                     ELSE <<"https://www.instagram.com">>
                                            \o Head(postLinks)])>>]
    ELSE [k EXCEPT !.outcome = <<cheerioFailure(<<CouldNotExtractText>>)>>]

\* direct HTML parsing, tried after the scan of the script blocks: the first
\* post link (prefixed unless it startsWith('http')) and the first image
\* served by instagram make the post; without them the strategy throws and
\* its catch returns the failure
directParse(u, anchors, images) ==
  LET postLinks == SelectSeq(anchors, isPostLink)
      instagramImages == SelectSeq(images, isInstagramImage)
      k == [u EXCEPT !.pc = "done", !.anchors = anchors, !.images = images]
  IN
  IF postLinks # <<>> /\ instagramImages # <<>>
    THEN [k EXCEPT !.outcome =
            <<Success([caption |-> "Caption not available via direct HTML parsing",
                       imageUrl |-> Head(instagramImages),
                       postUrl |-> IF Head(Head(postLinks)) = "http"
                                     THEN Head(postLinks)
                                     ELSE <<"https://www.instagram.com">>
                                            \o Head(postLinks)])>>]
    ELSE [k EXCEPT !.outcome = <<cheerioFailure(<<CouldNotExtractText>>)>>]

DirectParse ==
  /\ unit.kind = "scan"
  /\ unit.pc = "fallback"
  /\ \E anchors \in AnchorLists, images \in ImageLists :
       unit' = directParse(unit, anchors, images)
  /\ UNCHANGED <<config, call, lastUpdate>>

\* const captionSelectors = [...] of the page.evaluate of fetchViaPuppeteer
captionSelectors ==
  << "div[role=\"dialog\"] ul li span",
     "article[role=\"presentation\"] ul li span",
     "div[role=\"dialog\"] h1 + div span",
     "article div._a9zs span",
     "h1 + div span",
     "div._a9zs span",
     "span[dir=\"auto\"]",
     "div._ae5q span",
     "div[class*=\"_ae\"] span",
     "div[class*=\"_aa\"] span[dir=\"auto\"]",
     "ul li span[dir=\"auto\"]" >>

\* the elements of the post page that a caption selector can match, in
\* document order: each has its textContent, one character per fragment
\* (none, five characters, six, seven), and the selectors that match it
SpanLists ==
  LET Spans ==
        [textContent : { <<>>,
                         <<"h", "e", "l", "l", "o">>,
                         <<"s", "u", "n", "s", "e", "t">>,
                         <<"h", "o", "l", "i", "d", "a", "y">> },
         matches : { {captionSelectors[1]},
                     {captionSelectors[7]},
                     {captionSelectors[7], captionSelectors[11]},
                     {captionSelectors[11]} }]
  IN {<<>>} \cup {<<e>> : e \in Spans} \cup {<<e, f>> : e, f \in Spans}

\* document.querySelectorAll(selector): the matching elements in document
\* order, as their positions
querySelectorAll(elements, selector) ==
  {i \in 1..Len(elements) : selector \in elements[i].matches}

\* the first of the positions
first(positions) == CHOOSE i \in positions : \A j \in positions : i <= j

RECURSIVE captionElement_firstMatchingSelector(_, _)
captionElement_firstMatchingSelector(elements, s) ==
  IF s > Len(captionSelectors) THEN <<>>
  ELSE LET matched == querySelectorAll(elements, captionSelectors[s])
           accepted == {i \in matched : /\ elements[i].textContent # <<>>
                                        /\ Len(elements[i].textContent) > 5}
       IN IF accepted # {} THEN <<first(accepted)>>
          ELSE IF matched # {} THEN <<>>
          ELSE captionElement_firstMatchingSelector(elements, s + 1)

RECURSIVE captionElement(_, _)
\* `for (const selector of captionSelectors)` from selector s on: the first
\* element of the selector with `text && text.length > 5` ends the walk, a
\* selector without such an element is passed over
captionElement(elements, s) ==
  IF s > Len(captionSelectors) THEN <<>>
  ELSE LET matched == querySelectorAll(elements, captionSelectors[s])
           accepted == {i \in matched : /\ elements[i].textContent # <<>>
                                        /\ Len(elements[i].textContent) > 5}
       IN IF accepted # {} THEN <<first(accepted)>>
          ELSE captionElement(elements, s + 1)

\* the post page is open and page.evaluate is about to run
CaptionStart(elements) ==
  [kind |-> "caption", pc |-> "evaluate", elements |-> elements,
   caption |-> <<>>, outcome |-> <<>>]

\* page.evaluate, with
\* caption: captionElement ? captionElement.textContent || 'No caption' : 'No caption'
Evaluate ==
  /\ unit.kind = "caption"
  /\ unit.pc = "evaluate"
  /\ LET found == captionElement(unit.elements, 1) IN
     unit' = [unit EXCEPT
                !.pc = "image",
                !.caption =
                  IF found # <<>> /\ unit.elements[found[1]].textContent # <<>>
                    THEN unit.elements[found[1]].textContent
                    ELSE <<"No caption">>]
  /\ UNCHANGED <<config, call, lastUpdate>>

CouldNotExtractImageText == "Could not extract image URL from the post"

\* the rest of the strategy once postData is there: it returns the post with
\* the caption found when there is an image, and fails when there is none
CaptionReturn ==
  /\ unit.kind = "caption"
  /\ unit.pc = "image"
  /\ \E imageUrl \in {<<>>, <<"https://", "instagram", ".fcdn.net/a.jpg">>} :
       unit' = [unit EXCEPT
                  !.pc = "done",
                  !.outcome =
                    IF imageUrl # <<>>
                      THEN <<Success([caption |-> unit.caption,
                                      imageUrl |-> imageUrl])>>
                      ELSE <<puppeteerFailure(CouldNotExtractImageText)>>]
  /\ UNCHANGED <<config, call, lastUpdate>>

\* const imageSelectors = [...] of the page.evaluate of fetchViaPuppeteer
imageSelectors ==
  << "div[role=\"dialog\"] img[decoding=\"auto\"]",
     "article[role=\"presentation\"] img[decoding=\"auto\"]",
     "div[role=\"dialog\"] img[crossorigin=\"anonymous\"]",
     "article div._aagv img",
     "article img",
     "div._aagv img",
     "div[class*=\"_aa\"] img",
     "div[class*=\"_ab\"] img",
     "img[crossorigin=\"anonymous\"]",
     "img[alt]",
     "img[style*=\"object-fit\"]" >>

\* the images of the post page, in document order: each has its src (none
\* or empty, an address that names instagram, one that does not), its
\* rendered width and height around the limit of the heuristic, and the
\* image selectors that match it
ImgLists ==
  LET Imgs ==
        [src : { <<>>,
                 <<"https://", "instagram", ".fcdn.net/a.jpg">>,
                 <<"https://static.cdn", "/b.png">> },
         width : {300, 301},
         height : {300, 301},
         matches : { {},
                     {imageSelectors[1]},
                     {imageSelectors[5], imageSelectors[10]},
                     {imageSelectors[11]} }]
  IN {<<>>} \cup {<<e>> : e \in Imgs} \cup {<<e, f>> : e, f \in Imgs}

RECURSIVE imageElement(_, _)
\* `for (const selector of imageSelectors)` from selector s on: elements[0]
\* of the first selector that matches anything
imageElement(elements, s) ==
  IF s > Len(imageSelectors) THEN <<>>
  ELSE LET matched == querySelectorAll(elements, imageSelectors[s]) IN
       IF matched # {} THEN <<first(matched)>>
       ELSE imageElement(elements, s + 1)

likelyPostImages_anySize(allImages) ==
  {i \in 1..Len(allImages) :
     /\ allImages[i].src # <<>>
     /\ Contains(allImages[i].src, <<"instagram">>)}

\* allImages.filter(img => img.width > 300 && img.height > 300 && img.src &&
\* img.src.includes('instagram')), as positions
likelyPostImages(allImages) ==
  {i \in 1..Len(allImages) :
     /\ allImages[i].width > 300
     /\ allImages[i].height > 300
     /\ allImages[i].src # <<>>
     /\ Contains(allImages[i].src, <<"instagram">>)}

\* the post page is open and page.evaluate is about to run (by: what gave
\* the image)
ImageStart(elements) ==
  [kind |-> "image", pc |-> "evaluate", elements |-> elements,
   by |-> "none", outcome |-> <<>>]

\* page.evaluate, with
\* imageUrl: imageElement ? imageElement.getAttribute('src') || '' : '',
\* and `if (!postData.imageUrl)`: with an image address the post is
\* returned, without one all images of the page are fetched
EvaluateImage ==
  /\ unit.kind = "image"
  /\ unit.pc = "evaluate"
  /\ LET found == imageElement(unit.elements, 1)
         imageUrl == IF found # <<>> THEN unit.elements[found[1]].src ELSE <<>>
     IN
     unit' = IF imageUrl # <<>>
               THEN [unit EXCEPT !.pc = "done", !.by = "selector",
                                 !.outcome = <<Success([imageUrl |-> imageUrl])>>]
               ELSE [unit EXCEPT !.pc = "allImages"]
  /\ UNCHANGED <<config, call, lastUpdate>>

\* page.$$eval('img', ...) and the filter: the first likely image is the
\* post's, and without one the throw is turned into the failure
AllImages ==
  /\ unit.kind = "image"
  /\ unit.pc = "allImages"
  /\ LET likely == likelyPostImages(unit.elements) IN
     unit' = IF likely # {}
               THEN [unit EXCEPT
                       !.pc = "done", !.by = "heuristic",
                       !.outcome =
                         <<Success([imageUrl |-> unit.elements[first(likely)].src])>>]
               ELSE [unit EXCEPT
                       !.pc = "done",
                       !.outcome = <<puppeteerFailure(CouldNotExtractImageText)>>]
  /\ UNCHANGED <<config, call, lastUpdate>>

\* what `await axios.get(...)` of fetchViaApi can give: it raises, or it
\* returns a body without a collection, or one with a collection of media
\* items (caption and media_url are optional)
ApiResponses ==
  LET MediaItems ==
        [id : {"17890", "17891"}, caption : {<<>>, <<"">>, <<"hello">>},
         media_url : {<<>>, <<"http://img">>},
         permalink : {"https://www.instagram.com/p/abc/"},
         timestamp : {"2024-01-01T00:00:00+0000"}]
  IN {[raises |-> TRUE, data |-> <<>>], [raises |-> FALSE, data |-> <<>>],
      [raises |-> FALSE, data |-> << <<>> >>]}
     \cup {[raises |-> FALSE, data |-> << <<i>> >>] : i \in MediaItems}
     \cup {[raises |-> FALSE, data |-> << <<i, j>> >>] : i, j \in MediaItems}

\* the web scraping methods have failed in getLatestPost (invoked: calls of
\* fetchViaApi; requests: calls of axios.get; response: what the last one gave)
ApiStart(accessToken) ==
  [kind |-> "api", pc |-> "scrapingFailed", accessToken |-> accessToken,
   invoked |-> 0, requests |-> 0, response |-> <<>>, result |-> <<>>,
   outcome |-> <<>>]

\* `if (this.config.accessToken)` of getLatestPost and fetchViaApi up to its
\* request
CallApi ==
  /\ unit.kind = "api"
  /\ unit.pc = "scrapingFailed"
  /\ unit' = IF unit.accessToken
               THEN [unit EXCEPT !.pc = "request", !.invoked = @ + 1,
                                 !.requests = @ + 1]
               ELSE [unit EXCEPT !.pc = "done", !.outcome = <<allMethodsFailed>>]
  /\ UNCHANGED <<config, call, lastUpdate>>

\* const post: InstagramPost = {...} of fetchViaApi
apiPost(latestPost) ==
  [id |-> latestPost.id,
   caption |-> IF latestPost.caption # <<>> /\ latestPost.caption # <<"">>
                 THEN latestPost.caption[1] ELSE "No caption",
   imageUrl |-> latestPost.media_url,
   timestamp |-> latestPost.timestamp,
   postUrl |-> latestPost.permalink]

\* what fetchViaApi returns for a response
apiResult(response) ==
  IF response.raises THEN Failure(<<ApiPrefix, ExternalFault>>)
  ELSE IF response.data # <<>> /\ Len(response.data[1]) > 0
    THEN Success(apiPost(response.data[1][1]))
    ELSE Failure(<<"No posts found">>)

apiSettled_retriesOnce(u, response) ==
  LET k == [u EXCEPT !.response = <<response>>] IN
  IF response.raises /\ u.requests < 2
    THEN [k EXCEPT !.requests = @ + 1]
    ELSE [k EXCEPT !.pc = "done", !.result = <<apiResult(response)>>,
                   !.outcome = <<IF apiResult(response).success
                                   THEN apiResult(response)
                                   ELSE allMethodsFailed>>]

\* the request settles: fetchViaApi returns and getLatestPost with it
apiSettled(u, response) ==
  LET k == [u EXCEPT !.response = <<response>>] IN
  [k EXCEPT !.pc = "done", !.result = <<apiResult(response)>>,
            !.outcome = <<IF apiResult(response).success
                            THEN apiResult(response)
                            ELSE allMethodsFailed>>]

ApiRequest ==
  /\ unit.kind = "api"
  /\ unit.pc = "request"
  /\ \E response \in ApiResponses : unit' = apiSettled(unit, response)
  /\ UNCHANGED <<config, call, lastUpdate>>

\* the values a controller can raise: an Error or an ApiError with one of
\* three messages, or a value that is no Error
Thrown ==
  LET ErrorMessages == { <<"Summarization failed">>,
                         <<"Unexpected error">>,
                         <<"Failed to summarize text: ", ExternalFault>> }
  IN {Error(m) : m \in ErrorMessages}
     \cup {ApiError(m, statusCode) : m \in ErrorMessages,
                                     statusCode \in {400, 404, 500, 503}}
     \cup {NonError}

\* a request reaches a route wrapped by asyncHandler whose controller will
\* raise `thrown` before it has answered (responses: the responses sent;
\* rejected: the wrapper's promise rejects; passedOn: next(error) was called)
WrappedStart(thrown) ==
  [kind |-> "wrapped", pc |-> "fn", thrown |-> thrown, responses |-> <<>>,
   rejected |-> FALSE, passedOn |-> FALSE]

\* `await fn(req, res, next)` raises and the catch answers
WrappedRaise ==
  /\ unit.kind = "wrapped"
  /\ unit.pc = "fn"
  /\ unit' = [unit EXCEPT !.pc = "settled",
                          !.responses = Append(@, asyncHandlerCatch(unit.thrown))]
  /\ UNCHANGED <<config, call, lastUpdate>>

\* private readonly DEFAULT_MAX_LENGTH = 280
DEFAULT_MAX_LENGTH == 280

\* the texts the model can answer with, as the numbers of their leading
\* white space, other and trailing white space characters
GeneratedTexts ==
  [leading : {0, 2}, body : {0, 1, 279, 280, 281, 560}, trailing : {0, 1}]

summaryLength_untruncated(generated, maxLength) == generated.body

\* the length of the summary of summarizeText({ text, maxLength }) for what
\* the model answered: response.text().trim() leaves the body, and
\* substring(0, maxLength) its first maxLength characters; an absent
\* maxLength is DEFAULT_MAX_LENGTH
summaryLength(generated, maxLength) ==
  LET limit == IF maxLength = <<>> THEN DEFAULT_MAX_LENGTH ELSE maxLength[1]
  IN IF generated.body < limit THEN generated.body ELSE limit

\* the controller-driven flows that post a tweet, with the operation of
\* TwitterService each of them calls
PostingFlows ==
  { [route |-> "/tweet", operation |-> "postTweet"],
    [route |-> "/tweet-with-media", operation |-> "postTweetWithMedia"],
    [route |-> "/fetch-and-post", operation |-> "postTweet"],
    [route |-> "/fetch-and-post", operation |-> "postTweetWithMedia"] }

\* a controller is about to call llmService.summarizeText({ text })
LengthStart(flow, generated) ==
  [kind |-> "length", pc |-> "summarize", flow |-> flow,
   generated |-> generated, summary |-> 0, tweetText |-> <<>>,
   message |-> <<>>]

\* await llmService.summarizeText({ text: ... }): no maxLength is passed
LengthSummarize ==
  /\ unit.kind = "length"
  /\ unit.pc = "summarize"
  /\ unit' = [unit EXCEPT !.pc = "post",
                          !.summary = summaryLength(unit.generated, <<>>)]
  /\ UNCHANGED <<config, call, lastUpdate>>

\* twitterService.postTweet(summarizationResult.summary) or
\* postTweetWithMedia(summarizationResult.summary, imageUrl): first
\* `if (tweetText.length > 280)`, then the tweet goes through or does not
LengthPost ==
  /\ unit.kind = "length"
  /\ unit.pc = "post"
  /\ \E posted \in BOOLEAN :
       unit' = [unit EXCEPT
                  !.pc = "done",
                  !.tweetText = <<unit.summary>>,
                  !.message =
                    IF unit.summary > 280
                      THEN <<"Tweet exceeds character limit">>
                    ELSE IF unit.flow.operation = "postTweet"
                      THEN <<IF posted THEN "Tweet posted successfully"
                                       ELSE "Failed to post tweet">>
                      ELSE <<IF posted THEN "Tweet with media posted successfully"
                                       ELSE "Failed to post tweet with media">>]
  /\ UNCHANGED <<config, call, lastUpdate>>

\* one step sequence is chosen, with its input; no request is running
InitUnit ==
  /\ config = [s \in Services |-> InstagramService(<<>>, <<>>, FALSE)]
  /\ call = [c \in Calls |-> Idle]
  /\ lastUpdate = <<>>
  /\ \/ \E page \in SUBSET Range(postSelectors) : unit = CascadeStart(page)
     \/ unit = RetryStart
     \/ \E node \in Nodes : unit = ExtractStart(node)
     \/ unit = LatestStart
     \/ \E name \in Usernames, username \in BodyUsernames :
          unit = UpdateStart(InstagramService(<<name>>, <<>>, FALSE), username)
     \/ \E imageUpload \in BOOLEAN : unit = WorkflowStart(imageUpload)
     \/ \E route \in TwitterRoutes, body \in TwitterBodies :
          unit = TwitterStart(route, body)
     \/ \E tooLong \in BOOLEAN : unit = MediaStart(tooLong)
     \/ \E jsonData \in JsonDatas : unit = PathsStart(jsonData)
     \/ \E blocks \in Documents : unit = ScanStart(blocks)
     \/ \E elements \in SpanLists : unit = CaptionStart(elements)
     \/ \E elements \in ImgLists : unit = ImageStart(elements)
     \/ \E accessToken \in BOOLEAN : unit = ApiStart(accessToken)
     \/ \E thrown \in Thrown : unit = WrappedStart(thrown)
     \/ \E flow \in PostingFlows, generated \in GeneratedTexts :
          unit = LengthStart(flow, generated)

NextUnit ==
  \/ WaitForSelector
  \/ AxiosGet
  \/ Sleep
  \/ MapPost
  \/ GetLatestPostRoute
  \/ UpdateUsernameRoute
  \/ FetchAndPostRetrieve
  \/ FetchAndPostSummarize
  \/ FetchAndPostPost
  \/ TwitterValidate
  \/ TwitterSummarize
  \/ TwitterPost
  \/ PostTweetWithMedia
  \/ DownloadImage
  \/ WriteImage
  \/ UploadMedia
  \/ Tweet
  \/ SearchPaths
  \/ ScanBlock
  \/ DirectParse
  \/ Evaluate
  \/ CaptionReturn
  \/ EvaluateImage
  \/ AllImages
  \/ CallApi
  \/ ApiRequest
  \/ WrappedRaise
  \/ LengthSummarize
  \/ LengthPost

SpecUnit == InitUnit /\ [][NextUnit]_vars

\* ------------------------------------------------------------------------
\* Properties
\* ------------------------------------------------------------------------

\* the strategy that returned last in call c returned res from `name`
LastReturned(c, name) ==
  /\ call[c].returned # <<>>
  /\ call[c].returned[1].by = name

\* getLatestPost of call c has returned
Returned(c) == call[c].pc = "done"

\* a returned value is a success carrying a record and no error text
IsSuccessVariant(r) == r.success /\ Len(r.data) = 1 /\ r.error = <<>>

\* a returned value is a failure carrying an error text and no record
IsFailureVariant(r) == ~r.success /\ r.data = <<>> /\ r.error # <<>>

\* call c issues a profile request in this step
IssuesRequest(c) ==
  /\ call'[c].pc \in {"goto1", "goto2", "fetch"}
  /\ call'[c].pc # call[c].pc

C3_InFlightCallKeepsIdentifier ==
  \A c \in Calls :
    (call[c].pc # "idle" /\ call[c].lastTarget # <<>>) =>
      call[c].lastTarget[1] = call[c].startUser

\* C4: every returned outcome is exactly one variant: success with a record
\* and no error text, or failure with an error text and no record.
C4_ExactlyOneVariant ==
  \A c \in Calls :
    Returned(c) =>
      /\ IsSuccessVariant(call[c].outcome) \/ IsFailureVariant(call[c].outcome)
      /\ ~(IsSuccessVariant(call[c].outcome) /\ IsFailureVariant(call[c].outcome))

\* a call returned after all three strategies were attempted and failed
C4_Witness ==
  \E c \in Calls :
    /\ Returned(c)
    /\ call[c].invoked.api = 1
    /\ ~call[c].outcome.success

\* C5: when the last attempted strategy failed, the returned value is the
\* failure whose reason states exhaustion of all methods, and it carries no
\* record, also when a strategy had extracted part of a record.
C5_ExhaustionCarriesNoRecord ==
  \A c \in Calls :
    (Returned(c) /\ ~call[c].returned[1].result.success) =>
      /\ ~call[c].outcome.success
      /\ call[c].outcome.error = <<AllMethodsFailedText>>
      /\ call[c].outcome.data = <<>>

\* all strategies failed, the last one after extracting part of a record
C5_Witness ==
  \E c \in Calls :
    /\ Returned(c)
    /\ call[c].partial
    /\ ~call[c].outcome.success

C7_SetUsernameTakesEffect ==
  [][/\ lastUpdate' # <<>> =>
          config'["instagramController"].username = lastUpdate'[1]
     /\ \A c \in Calls :
          (IssuesRequest(c) /\ lastUpdate # <<>>
             /\ ServiceOf(call[c].route) = "instagramController") =>
            call'[c].lastTarget = lastUpdate
    ]_vars

\* a call of the latest-post route that started after setUsername("newuser")
\* has run the browser and the static strategy against "newuser"
C7_Witness ==
  \E c \in Calls :
    /\ Returned(c)
    /\ call[c].route = "latest"
    /\ call[c].startUser = "newuser"
    /\ call[c].lastTarget = <<"newuser">>
    /\ lastUpdate = <<"newuser">>
    /\ call[c].invoked.cheerio = 1

\* C8 (as claimed): after the username-update route has set u, every profile
\* request issued by a retrieval of either route targets u.
C8_SingleTargetConfig ==
  [][\A c \in Calls :
       (IssuesRequest(c) /\ lastUpdate # <<>>) =>
         call'[c].lastTarget = lastUpdate
    ]_vars

\* C9: without an access token fetchViaApi is never invoked and no API
\* request is ever in flight; a failure of the static strategy returns the
\* exhaustion failure at once.
C9_NoTokenNoApi ==
  \A c \in Calls :
    ~Cfg(c).accessToken =>
      /\ call[c].invoked.api = 0
      /\ call[c].pc # "api"
      /\ (LastReturned(c, "cheerio") /\ ~call[c].returned[1].result.success) =>
           (Returned(c) /\ call[c].outcome.error = <<AllMethodsFailedText>>)

\* without a token, browser and static strategy failed and the call returned
C9_Witness ==
  \E c \in Calls :
    /\ ~Cfg(c).accessToken
    /\ Returned(c)
    /\ LastReturned(c, "cheerio")
    /\ ~call[c].outcome.success

C12_NoRawFault ==
  \A c \in Calls : call[c].pc # "raised"

\* C15 (as claimed): every returned success carries a record with a
\* non-empty caption and a non-empty imageUrl.
C15_SuccessHasCaptionAndImage ==
  \A c \in Calls :
    (Returned(c) /\ call[c].outcome.success) =>
      /\ call[c].outcome.data[1].caption # ""
      /\ call[c].outcome.data[1].imageUrl # ""

\* C18: a running browser strategy navigates to the profile at most twice;
\* the second navigation is issued only by the step in which the first one
\* fails; when the second one fails, the strategy goes to its failure exit
\* and issues no further navigation.
C18_NavigationRetriedAtMostOnce ==
  [][\A c \in Calls :
       /\ Len(call'[c].navs) <= 2
       /\ Len(call'[c].navs) > Len(call[c].navs) =>
            \/ call[c].pc = "setup" /\ call[c].navs = <<>>
            \/ /\ call[c].pc = "goto1" /\ call'[c].pc = "goto2"
               /\ Len(call[c].navs) = 1
       /\ (call[c].pc = "goto2" /\ call'[c].pc \notin {"goto2", "profile"}) =>
            /\ call'[c].pc = "close"
            /\ call'[c].pending = puppeteerFailure(ExternalFault)
            /\ call'[c].navs = call[c].navs]_vars

\* the second navigation failed and the strategy is at its failure exit
C18_Witness ==
  \E c \in Calls :
    /\ call[c].pc = "close"
    /\ Len(call[c].navs) = 2
    /\ call[c].pending = puppeteerFailure(ExternalFault)

\* how much of the page load a waitUntil condition of page.goto waits for
Strictness(waitUntil) ==
  CASE waitUntil = "domcontentloaded" -> 1
    [] waitUntil = "load" -> 2
    [] waitUntil = "networkidle2" -> 3
    [] waitUntil = "networkidle0" -> 4

\* C19 (as claimed): the retry navigation waits for a less strict readiness
\* condition and has a strictly greater timeout than the first navigation.
C19_RetryTimeoutLonger ==
  \A c \in Calls :
    Len(call[c].navs) = 2 =>
      /\ Strictness(call[c].navs[2].waitUntil) < Strictness(call[c].navs[1].waitUntil)
      /\ call[c].navs[2].timeout > call[c].navs[1].timeout

\* C19 (amended): the retry navigation waits for a less strict readiness
\* condition and has a strictly smaller timeout than the first navigation
\* (60000 ms after 120000 ms).
C19_RetryTimeoutShorter ==
  \A c \in Calls :
    Len(call[c].navs) = 2 =>
      /\ Strictness(call[c].navs[2].waitUntil) < Strictness(call[c].navs[1].waitUntil)
      /\ call[c].navs[2].timeout < call[c].navs[1].timeout
      /\ call[c].navs[1].timeout = 120000
      /\ call[c].navs[2].timeout = 60000

\* the retry navigation is in flight
C19_Witness ==
  \E c \in Calls : call[c].pc = "goto2" /\ Len(call[c].navs) = 2

FailedAttempts(u) == {i \in 1..Len(u.settled) : u.settled[i] # "body"}

\* the retry loop gave up: its failure names the exhausted attempt budget
FetchFailure(u) ==
  /\ u.result # <<>>
  /\ Contains(u.result[1].error, <<"Failed after 3 attempts: ">>)

\* C13: in the retry loop of fetchViaCheerio one wait follows each of the
\* first two failed attempts and none the third; the wait after the k-th
\* failure lasts 2^k seconds plus less than one second, so the second is
\* strictly longer than the first; when attempts 1 and 2 fail and attempt 3
\* succeeds there were exactly 3 requests and 2 waits; the loop gives up
\* only with 3 failed attempts behind it.
C13_RetryBudget ==
  unit.kind = "retry" =>
    /\ unit.attempts <= maxRetries
    /\ unit.attempts = Len(unit.settled) + (IF unit.pc = "fetch" THEN 1 ELSE 0)
    /\ Len(unit.waits) = Cardinality(FailedAttempts(unit) \ {maxRetries})
    /\ \A k \in 1..Len(unit.waits) :
         /\ unit.waits[k] >= pow(2, k) * 1000
         /\ unit.waits[k] < pow(2, k) * 1000 + 1000
    /\ Len(unit.waits) = 2 => unit.waits[2] > unit.waits[1]
    /\ (Len(unit.settled) = 3 /\ FailedAttempts(unit) = {1, 2}) =>
         /\ unit.attempts = 3
         /\ Len(unit.waits) = 2
         /\ ~FetchFailure(unit)
    /\ FetchFailure(unit) =>
         /\ unit.attempts = 3
         /\ FailedAttempts(unit) = {1, 2, 3}
         /\ Len(unit.waits) = 2

\* two requests failed, the third one fetched the page
C13_Witness ==
  /\ unit.kind = "retry"
  /\ unit.settled = <<"error", "error", "body">>
  /\ unit.pc = "parse"
  /\ Len(unit.waits) = 2

C16_SelectorCascade ==
  unit.kind = "cascade" =>
    /\ Len(unit.probed) <= Len(postSelectors)
    /\ \A i \in 1..Len(unit.probed) : unit.probed[i] = postSelectors[i]
    /\ unit.pc = "links" =>
         /\ unit.foundSelector
         /\ unit.workingSelector = unit.probed[Len(unit.probed)]
         /\ unit.workingSelector \in unit.page
         /\ \A i \in 1..(Len(unit.probed) - 1) : unit.probed[i] \notin unit.page
    /\ unit.pc = "failed" =>
         /\ ~unit.foundSelector
         /\ unit.page = {}
         /\ unit.probed = postSelectors
    /\ (unit.page = {postSelectors[3]} /\ unit.pc # "probe") =>
         /\ unit.pc = "links"
         /\ unit.workingSelector = postSelectors[3]
         /\ unit.probed = SubSeq(postSelectors, 1, 3)

\* a page matching only the third selector has been probed
C16_Witness ==
  /\ unit.kind = "cascade"
  /\ unit.page = {postSelectors[3]}
  /\ unit.pc = "links"
  /\ Len(unit.probed) = 3

\* the edge of the claim: caption text hello, display_url http://img,
\* shortcode abc, and nothing else
ClaimedEdge ==
  [id |-> <<>>, caption |-> <<"hello">>, display_url |-> <<"http://img">>,
   taken_at_timestamp |-> <<>>, liked_by |-> <<>>, shortcode |-> <<"abc">>]

\* the record mapped from the processed edge
MappedPost == unit.result[1].data[1]

BrowserPcs == {"launch", "setup", "goto1", "goto2", "profile", "post", "close"}

\* the positions of a call inside fetchViaCheerio
StaticPcs == {"fetch", "backoff"}

\* C21: in one call no step invokes a strategy a second time, and no step
\* leads from a later strategy back into an earlier one; the only repeated
\* requests are those of the static strategy's own retry loop.
C21_NoRetryAcrossStrategies ==
  [][\A c \in Calls :
       call'[c].pc # "idle" =>
         /\ \A s \in {"puppeteer", "cheerio", "api"} :
              /\ call'[c].invoked[s] <= 1
              /\ call'[c].invoked[s] >= call[c].invoked[s]
         /\ call[c].pc \in StaticPcs \cup {"api", "done"} =>
              call'[c].pc \notin BrowserPcs
         /\ call[c].pc \in {"api", "done"} => call'[c].pc \notin StaticPcs
         /\ call'[c].retryCount > 0 => call'[c].pc \in StaticPcs]_vars

\* the static strategy used up its own retries and failed, and the API
\* strategy runs without any strategy having run twice
C21_Witness ==
  \E c \in Calls :
    /\ call[c].pc = "api"
    /\ call[c].invoked = [puppeteer |-> 1, cheerio |-> 1, api |-> 1]
    /\ call[c].returned[1].result =
         cheerioFailure(<<"Failed after 3 attempts: ", ExternalFault>>)

\* C22: the latest-post route answers a returned failure with 404 and the
\* failure's reason, a returned success with 200, and answers 500 exactly
\* when the service call raised.
C22_FailureIs404 ==
  (unit.kind = "latest" /\ unit.pc = "responded") =>
    LET settled == unit.retrieval[1] IN
    /\ (~settled.raised /\ ~settled.value.success) =>
         /\ unit.response.status = 404
         /\ ~unit.response.success
         /\ unit.response.error = settled.value.error
    /\ (~settled.raised /\ settled.value.success) => unit.response.status = 200
    /\ unit.response.status >= 500 <=> settled.raised
    /\ settled.raised => unit.response.status = 500

\* the route answered the exhaustion failure
C22_Witness ==
  /\ unit.kind = "latest"
  /\ unit.pc = "responded"
  /\ unit.response.status = 404
  /\ unit.response.error = <<AllMethodsFailedText>>

\* C23: in the workflow a retrieval that returned a failure is answered
\* with 404 and one that raised with 500; in both cases neither the
\* summarizer nor a posting operation was called.
C23_FailureStopsWorkflow ==
  (unit.kind = "workflow" /\ unit.retrieval # <<>>) =>
    LET settled == unit.retrieval[1] IN
    /\ (~settled.raised /\ (~settled.value.success \/ settled.value.data = <<>>)) =>
         /\ unit.pc = "responded"
         /\ unit.response.status = 404
         /\ unit.invoked = <<>>
    /\ settled.raised =>
         /\ unit.pc = "responded"
         /\ unit.response.status = 500
         /\ unit.invoked = <<>>

\* the retrieval raised and the workflow answered 500
C23_Witness ==
  /\ unit.kind = "workflow"
  /\ unit.retrieval # <<>>
  /\ unit.retrieval[1].raised
  /\ unit.response.status = 500

\* the posting calls among the calls the workflow has made
PostingCalls ==
  {i \in 1..Len(unit.invoked) :
     unit.invoked[i].op \in {"postTweet", "postTweetWithMedia"}}

\* C24: in the workflow no posting operation is called before the summary
\* is there; once it is, exactly one posting call has been made:
\* postTweetWithMedia(summary, imageUrl) when imageUpload is set and the
\* record's imageUrl is non-empty, postTweet(summary) otherwise.
C24_ExactlyOnePosting ==
  unit.kind = "workflow" =>
    /\ unit.summary = <<>> => PostingCalls = {}
    /\ unit.summary # <<>> =>
         LET post == unit.retrieval[1].value.data[1] IN
         /\ PostingCalls = {Len(unit.invoked)}
         /\ unit.invoked[Len(unit.invoked)] =
              IF unit.imageUpload /\ post.imageUrl # ""
                THEN Invocation("postTweetWithMedia",
                                <<unit.summary[1], post.imageUrl>>)
                ELSE Invocation("postTweet", <<unit.summary[1]>>)

\* imageUpload was set, the record had no image URL, and the workflow
\* posted with postTweet alone
C24_Witness ==
  /\ unit.kind = "workflow"
  /\ unit.pc = "responded"
  /\ unit.imageUpload
  /\ unit.summary # <<>>
  /\ unit.retrieval[1].value.data[1].imageUrl = ""
  /\ unit.invoked[Len(unit.invoked)].op = "postTweet"
  /\ unit.response.status = 200

\* C25: a username-update request without a username is answered with 400
\* and the error 'Username is required'; setUsername was not called and the
\* service's configuration is what it was.
C25_MissingUsernameRejected ==
  (unit.kind = "update" /\ unit.pc = "responded" /\ missing(unit.username)) =>
    /\ unit.response.status = 400
    /\ ~unit.response.success
    /\ unit.response.error = <<"Username is required">>
    /\ unit.invoked = <<>>
    /\ unit.config = unit.before

\* a request without the username property was rejected while the service
\* targets an identifier set earlier
C25_Witness ==
  /\ unit.kind = "update"
  /\ unit.pc = "responded"
  /\ unit.username = <<>>
  /\ unit.config.username = "newuser"
  /\ unit.response.status = 400

\* a TwitterController request lacks a field its route requires
InvalidTwitterRequest ==
  \/ missing(unit.body.instagramCaption)
  \/ unit.route = "tweet-with-media" /\ missing(unit.body.imageUrl)

\* C26: a TwitterController request lacking a required field is answered
\* with 400 and success=false without any call of the summarizer or of a
\* posting operation; when a posting result came back, the status is 200 if
\* its success is true and 400 if it is false.
C26_TwitterValidation ==
  unit.kind = "twitter" =>
    /\ (InvalidTwitterRequest /\ unit.pc # "request") =>
         /\ unit.pc = "responded"
         /\ unit.response.status = 400
         /\ ~unit.response.success
         /\ unit.invoked = <<>>
    /\ unit.posting # <<>> =>
         /\ ~InvalidTwitterRequest
         /\ unit.response.status = 200 <=> unit.posting[1].success
         /\ ~unit.posting[1].success => unit.response.status = 400

\* the media route got a failed posting result and answered 400
C26_Witness ==
  /\ unit.kind = "twitter"
  /\ unit.route = "tweet-with-media"
  /\ unit.pc = "responded"
  /\ unit.posting # <<>>
  /\ ~unit.posting[1].success
  /\ unit.response.status = 400

\* C27 (as claimed): once postTweetWithMedia has returned, no temporary
\* file of the call is left in the temp directory.
C27_TempFileDeleted ==
  (unit.kind = "media" /\ unit.pc = "returned") => unit.tempFiles = {}

\* C28 (as claimed): when the write of the saved markup fails for a body
\* that is usable HTML, the static strategy carries on to parse it, as it
\* does when the write succeeds.
C28_ArtifactsBestEffort ==
  (unit.kind = "retry" /\ unit.artifact = "failed" /\
   unit.html.type = "string" /\ trim(unit.html.text) # <<>>) =>
    unit.pc = "parse"

\* the nesting paths that hold a non-empty edge list
PathsWithPosts ==
  {i \in 1..Len(NestingPaths) : unit.jsonData[NestingPaths[i]] = "posts"}

\* C29 (as claimed): when some nesting path holds a non-empty edge list,
\* the search returns the post of the first such path, whatever the earlier
\* paths hold.
C29_FirstNonEmptyPathWins ==
  (unit.kind = "paths" /\ unit.pc # "search" /\ PathsWithPosts # {}) =>
    /\ unit.pc = "returned"
    /\ \E i \in PathsWithPosts :
         /\ unit.edges.from = NestingPaths[i]
         /\ \A j \in PathsWithPosts : i <= j

\* the script blocks of the scanned document that yield a post
PostBlocks == {i \in 1..Len(unit.blocks) : unit.blocks[i] = "post"}

\* C30: the script blocks are scanned in document order; a block that
\* matches no pattern, holds no JSON, holds no post edge or cannot be mapped
\* is passed over; the scan returns the post of the first block that yields
\* one and turns to direct markup extraction only when no block does.
C30_ScanContinues ==
  unit.kind = "scan" =>
    /\ \A i \in 1..Len(unit.scanned) : unit.scanned[i] = i
    /\ \A i \in 1..Len(unit.scanned) :
         unit.blocks[i] # "post" => (i < Len(unit.scanned) \/ unit.pc # "returned")
    /\ unit.pc = "scan" => PostBlocks \cap (1..Len(unit.scanned)) = {}
    /\ unit.pc = "returned" =>
         /\ unit.result # <<>>
         /\ unit.result[1] \in PostBlocks
         /\ \A j \in PostBlocks : unit.result[1] <= j
         /\ Len(unit.scanned) = unit.result[1]
    /\ unit.pc = "fallback" =>
         /\ PostBlocks = {}
         /\ Len(unit.scanned) = Len(unit.blocks)

\* the fourth block produced the success after three unusable ones
C30_Witness ==
  /\ unit.kind = "scan"
  /\ unit.blocks = <<"noPattern", "badJson", "noEdge", "post">>
  /\ unit.pc = "returned"
  /\ unit.result = <<4>>

\* the positions of the document's anchors that reference a post path
PostAnchors == {i \in 1..Len(unit.anchors) : Contains(unit.anchors[i], <<"/p/">>)}

\* the positions of the document's images whose source names the host
HostImages == {i \in 1..Len(unit.images) : Contains(unit.images[i], <<"instagram">>)}

\* C31: direct markup extraction runs only when no script block yielded a
\* post. It succeeds exactly when the document has an anchor to a post path
\* and an image whose source names the host: the record then carries the
\* placeholder caption, the first such anchor as postUrl (prefixed with
\* https://www.instagram.com unless it is an absolute address) and the first
\* such image. Otherwise the static strategy returns a failure.
C31_DirectFallback ==
  unit.kind = "scan" =>
    /\ unit.pc # "done" => unit.outcome = <<>>
    /\ unit.pc = "done" =>
         /\ PostBlocks = {}
         /\ unit.result = <<>>
         /\ unit.outcome # <<>>
         /\ unit.outcome[1].success <=> (PostAnchors # {} /\ HostImages # {})
         /\ unit.outcome[1].success =>
              \E a \in PostAnchors, i \in HostImages :
                /\ \A b \in PostAnchors : a <= b
                /\ \A j \in HostImages : i <= j
                /\ unit.outcome[1].data[1].caption =
                     "Caption not available via direct HTML parsing"
                /\ unit.outcome[1].data[1].imageUrl = unit.images[i]
                /\ unit.outcome[1].data[1].postUrl =
                     IF unit.anchors[a][1] = "http"
                       THEN unit.anchors[a]
                       ELSE <<"https://www.instagram.com">> \o unit.anchors[a]
         /\ ~unit.outcome[1].success =>
              /\ unit.outcome[1].data = <<>>
              /\ Contains(unit.outcome[1].error, <<CouldNotExtractText>>)

\* after three unusable script blocks the relative link of the second anchor
\* and the second image made the post
C31_Witness ==
  /\ unit.kind = "scan"
  /\ unit.pc = "done"
  /\ Len(unit.blocks) = 3
  /\ unit.anchors = << <<"/explore/">>, <<"/p/", "abc/">> >>
  /\ unit.images = << <<"https://static.cdn", "/sprite.png">>,
                      <<"https://", "instagram", ".fcdn.net/first.jpg">> >>
  /\ unit.outcome[1].success
  /\ unit.outcome[1].data[1].postUrl =
       <<"https://www.instagram.com", "/p/", "abc/">>

\* the element at position i of the page is found by the selector at
\* position s of the list and has more than 5 characters of text
Qualifies(s, i) ==
  /\ captionSelectors[s] \in unit.elements[i].matches
  /\ Len(unit.elements[i].textContent) > 5

\* the (selector, element) pairs that qualify
Qualifying ==
  {p \in (1..Len(captionSelectors)) \X (1..Len(unit.elements)) :
     Qualifies(p[1], p[2])}

\* C33: the caption is the text of the first element, in selector order and
\* then in document order, that has more than 5 characters of text; a
\* selector whose elements are all too short does not end the walk. When no
\* element qualifies the caption is 'No caption', and the strategy fails
\* only for want of an image.
C33_CaptionWalk ==
  (unit.kind = "caption" /\ unit.pc # "evaluate") =>
    /\ Qualifying = {} => unit.caption = <<"No caption">>
    /\ Qualifying # {} =>
         \E p \in Qualifying :
           /\ \A q \in Qualifying :
                p[1] < q[1] \/ (p[1] = q[1] /\ p[2] <= q[2])
           /\ unit.caption = unit.elements[p[2]].textContent
    /\ unit.pc = "done" =>
         /\ unit.outcome[1].success =>
              unit.outcome[1].data[1].caption = unit.caption
         /\ ~unit.outcome[1].success =>
              unit.outcome[1].error = <<PuppeteerPrefix, CouldNotExtractImageText>>

\* the first element matched the seventh selector with five characters only;
\* the walk went on and took the second element through the eleventh selector
C33_Witness ==
  /\ unit.kind = "caption"
  /\ unit.pc = "done"
  /\ unit.elements =
       << [textContent |-> <<"h", "e", "l", "l", "o">>,
           matches |-> {captionSelectors[7]}],
          [textContent |-> <<"s", "u", "n", "s", "e", "t">>,
           matches |-> {captionSelectors[11]}] >>
  /\ unit.outcome[1].success
  /\ unit.outcome[1].data[1].caption = <<"s", "u", "n", "s", "e", "t">>

\* no element had more than 5 characters: the post is returned with the
\* literal caption
C33_NoCaptionWitness ==
  /\ unit.kind = "caption"
  /\ unit.pc = "done"
  /\ Len(unit.elements) = 2
  /\ unit.outcome[1].success
  /\ unit.outcome[1].data[1].caption = <<"No caption">>

\* the positions in the list of the image selectors that match an image
MatchingImageSelectors ==
  {s \in 1..Len(imageSelectors) :
     \E i \in 1..Len(unit.elements) : imageSelectors[s] \in unit.elements[i].matches}

\* the source of the first element of the first matching image selector
\* (none when no selector matches or that element has no source)
SelectorSource ==
  IF MatchingImageSelectors = {} THEN <<>>
  ELSE LET s == CHOOSE t \in MatchingImageSelectors :
                  \A v \in MatchingImageSelectors : t <= v
           i == CHOOSE j \in 1..Len(unit.elements) :
                  /\ imageSelectors[s] \in unit.elements[j].matches
                  /\ \A k \in 1..(j - 1) :
                       imageSelectors[s] \notin unit.elements[k].matches
       IN unit.elements[i].src

\* the images more than 300 wide and high whose source names the host
LargeHostImages ==
  {i \in 1..Len(unit.elements) :
     /\ unit.elements[i].width > 300
     /\ unit.elements[i].height > 300
     /\ Contains(unit.elements[i].src, <<"instagram">>)}

\* C32: the image is the source of the first element of the first matching
\* image selector; when that gives no source it is the first image more than
\* 300 wide and more than 300 high whose source names the host; when neither
\* gives an image the strategy fails.
C32_ImageExtraction ==
  (unit.kind = "image" /\ unit.pc = "done") =>
    /\ SelectorSource # <<>> =>
         /\ unit.outcome[1].success
         /\ unit.by = "selector"
         /\ unit.outcome[1].data[1].imageUrl = SelectorSource
    /\ (SelectorSource = <<>> /\ LargeHostImages # {}) =>
         /\ unit.outcome[1].success
         /\ unit.by = "heuristic"
         /\ \E i \in LargeHostImages :
              /\ \A j \in LargeHostImages : i <= j
              /\ unit.outcome[1].data[1].imageUrl = unit.elements[i].src
    /\ (SelectorSource = <<>> /\ LargeHostImages = {}) =>
         /\ ~unit.outcome[1].success
         /\ unit.outcome[1].data = <<>>
         /\ unit.outcome[1].error = <<PuppeteerPrefix, CouldNotExtractImageText>>

\* the first element of the only matching selector had no source, and the
\* second image, 301 by 301 and served by the host, was taken instead
C32_Witness ==
  /\ unit.kind = "image"
  /\ unit.pc = "done"
  /\ Len(unit.elements) = 2
  /\ unit.elements[1].src = <<>>
  /\ unit.elements[1].matches = {imageSelectors[5], imageSelectors[10]}
  /\ unit.elements[2].matches = {}
  /\ unit.by = "heuristic"
  /\ unit.outcome[1].success
  /\ unit.outcome[1].data[1].imageUrl = unit.elements[2].src

\* C34: an invocation of the official-API strategy issues exactly one
\* request, whatever the request gives. It returns the record made of the
\* first item of the returned collection, and a failure when the request
\* raises or the collection is missing or empty.
C34_ApiOnce ==
  unit.kind = "api" =>
    /\ unit.requests = unit.invoked
    /\ unit.invoked <= 1
    /\ (unit.pc = "done" /\ unit.invoked = 1) =>
         LET response == unit.response[1]
             result == unit.result[1]
         IN
         /\ response.raises =>
              ~result.success /\ Contains(result.error, <<ApiPrefix>>)
         /\ (~response.raises /\ (response.data = <<>> \/ response.data[1] = <<>>)) =>
              ~result.success /\ result.error = <<"No posts found">>
         /\ (~response.raises /\ response.data # <<>> /\ response.data[1] # <<>>) =>
              /\ result.success
              /\ result.data[1].id = response.data[1][1].id
              /\ result.data[1].postUrl = response.data[1][1].permalink
              /\ result.data[1].timestamp = response.data[1][1].timestamp
              /\ result.data[1].imageUrl = response.data[1][1].media_url
              /\ result.data[1].caption \in {response.data[1][1].caption[i] :
                                               i \in 1..Len(response.data[1][1].caption)}
                                            \cup {"No caption"}

\* the collection had two items and the record was made of the first
C34_Witness ==
  /\ unit.kind = "api"
  /\ unit.pc = "done"
  /\ unit.requests = 1
  /\ unit.response # <<>>
  /\ unit.response[1].data # <<>>
  /\ Len(unit.response[1].data[1]) = 2
  /\ unit.response[1].data[1][1].id = "17891"
  /\ unit.response[1].data[1][2].id = "17890"
  /\ unit.result[1].success
  /\ unit.result[1].data[1].id = "17891"
  /\ unit.result[1].data[1].caption = "hello"

\* the request raised: one request, no second one, and a failure
C34_ErrorWitness ==
  /\ unit.kind = "api"
  /\ unit.pc = "done"
  /\ unit.requests = 1
  /\ unit.response # <<>>
  /\ unit.response[1].raises
  /\ ~unit.result[1].success

\* C35: an error raised in a controller wrapped by asyncHandler is answered
\* by exactly one response with success false and the error's message as
\* error ('Unknown error' for a raised value that is no Error). The status is
\* the statusCode of an ApiError and 500 for any other error; the message is
\* 'Failed to summarize caption' when the error's message is 'Summarization
\* failed' and 'Failed to process request' otherwise. The error goes no
\* further: the wrapper neither rejects nor calls next.
C35_WrappedErrorAnswered ==
  (unit.kind = "wrapped" /\ unit.pc = "settled") =>
    /\ Len(unit.responses) = 1
    /\ ~unit.responses[1].success
    /\ unit.responses[1].data = <<>>
    /\ unit.thrown.instanceofError =>
         unit.responses[1].error = unit.thrown.message
    /\ ~unit.thrown.instanceofError =>
         unit.responses[1].error = <<"Unknown error">>
    /\ unit.responses[1].status =
         IF unit.thrown.instanceofApiError THEN unit.thrown.statusCode ELSE 500
    /\ unit.responses[1].message =
         IF unit.thrown.message = <<"Summarization failed">>
           THEN <<"Failed to summarize caption">>
           ELSE <<"Failed to process request">>
    /\ ~unit.rejected
    /\ ~unit.passedOn

\* an ApiError with statusCode 404 and the message 'Summarization failed'
C35_Witness ==
  /\ unit.kind = "wrapped"
  /\ unit.pc = "settled"
  /\ unit.thrown.instanceofApiError
  /\ unit.thrown.statusCode = 404
  /\ unit.responses[1].status = 404
  /\ unit.responses[1].message = <<"Failed to summarize caption">>
  /\ unit.responses[1].error = <<"Summarization failed">>

\* C38: the tweet text a controller hands to postTweet or postTweetWithMedia
\* is the summary of summarizeText, which has at most 280 characters; no
\* controller-driven flow is answered 'Tweet exceeds character limit'.
C38_SummaryFitsTweet ==
  unit.kind = "length" =>
    /\ unit.pc # "summarize" => unit.summary <= 280
    /\ unit.pc = "done" =>
         /\ unit.tweetText = <<unit.summary>>
         /\ unit.message # <<"Tweet exceeds character limit">>

\* the model answered with 560 characters and the tweet of 280 went through
C38_Witness ==
  /\ unit.kind = "length"
  /\ unit.pc = "done"
  /\ unit.generated.body = 560
  /\ unit.flow.operation = "postTweetWithMedia"
  /\ unit.tweetText = <<280>>
  /\ unit.message = <<"Tweet with media posted successfully">>

\* C36 (as claimed): when every awaited operation settles, every invocation
\* of getLatestPost eventually returns an outcome.
C36_EventuallyReturns ==
  \A c \in Calls : (call[c].pc = "launch") ~> (call[c].pc = "done")

\* C36 (what holds): when every awaited operation settles, every invocation
\* eventually returns an outcome or rejects.
C36_EventuallySettles ==
  \A c \in Calls : (call[c].pc = "launch") ~> (call[c].pc \in {"done", "raised"})

\* C36 (what holds): an invocation runs the browser strategy once, issues at
\* most 3 static fetches with at most 2 backoff waits between them, and at
\* most one API request.
C36_Budget ==
  \A c \in Calls :
    /\ call[c].invoked.puppeteer <= 1
    /\ call[c].invoked.cheerio <= 1
    /\ call[c].invoked.api <= 1
    /\ call[c].retryCount <= 2
    /\ call[c].pc = "backoff" => call[c].retryCount \in 1..2

\* the calls of getLatestPost that are running
InFlight == {c \in Calls : call[c].pc \notin {"idle", "done", "raised"}}

\* the calls whose browser session is open
OpenSessions == {c \in Calls : call[c].session = "open"}

C37_SessionsOfReturnedCallsClosed ==
  \A c \in OpenSessions : c \in InFlight \/ call[c].pc = "raised"

====
